---- MODULE Spec2Model ----
(***************************************************************************)
(* Model of the routing core of model-router: RouterEngine (circuit        *)
(* breakers, candidate filter, failover executor), HealthMonitor and       *)
(* PolicyEngine.  One action is one run of JavaScript between two awaits:  *)
(* node runs each such run to completion, so concurrent requests           *)
(* interleave only at the awaited makeRequest.                             *)
(***************************************************************************)
EXTENDS Integers, Sequences, FiniteSets, TLC

\* ------------------------------------------------------------------------
\* Program constants
\* ------------------------------------------------------------------------
\* JavaScript null (lastFailureTime / nextAttemptTime before the first failure)
Null == -1
\* breaker.threshold
threshold == 5
\* breaker.timeout (cool-down, ms)
timeout == 60000
\* per-attempt deadline handed to executeWithTimeout (ms)
requestTimeoutMs == 15000
\* latency stored in an unhealthy sample
unhealthyLatency == 999999
\* history cap and aggregate window of updateHealthData
historyCap == 100
recentWindow == 20
\* initial avg_latency of a health entry
initialLatency == 200
\* the rate limiter's window: RATE_LIMIT_WINDOW_MS || 60 * 1000
windowMs == 60000
\* the rate limit of a tenant without one: rate_limit_per_minute || 100
defaultRateLimit == 100
\* the quota of a tenant without one of that type: quotas[quotaType] || 1000
defaultQuota == 1000
\* trackUsage: 24 * 60 * 60 * 1000
dayMs == 86400000
\* chat route: estimated cost per token, in thousandths of a dollar
costPerToken == 2

\* ------------------------------------------------------------------------
\* Bounds of the model
\* ------------------------------------------------------------------------
\* request slots (routeRequest calls that can be in flight at once)
MaxInFlight == 2
\* Spec: clock ticks and routeRequest calls
MaxTicks == 2
MaxRequests == 2
\* SpecOutage: leading calls of google-gemini that fail, routeRequest calls
\* after them, clock ticks after the cool-down
OutageCalls == 4
OutageRequests == 3
OutageTicks == 0
\* SpecBreaker: failureCount up to which recordCircuitBreakerFailure is called,
\* clock ticks after the cool-down
MaxFailures == 6
BreakerTicks == 1
\* SpecFailover: routeRequest calls and clock ticks
FailoverRequests == 6
FailoverTicks == 1
\* requests and clock ticks of the run with repeated names in an enabled list
RepeatRequests == 2
RepeatTicks == 1
\* SpecGate: routeRequest calls, and clock ticks beyond one cool-down
GateRequests == 6
GateTicks == 0
\* SpecApi: chat requests, largest quota and rate limit of a tenant file,
\* largest usage.total_tokens of a response, clock ticks, days slept
ApiRequests == 2
MaxQuota == 1
MaxTokens == 1
ApiDays == 2
OverlapRequests == 3
\* SpecAdapter: routeRequest calls, and deadlines the clock may pass
AdapterRequests == 2
AdapterTicks == 1
\* SpecRace: the largest daily quota of the tenant whose requests overlap
RaceQuota == 1
\* SpecHealth: health updates of a provider, and the leading ones among them
\* during which the provider answers and is probed
HealthUpdates == 102
WarmCalls == 3
\* SpecOrder: routeRequest calls and clock ticks
OrderRequests == 2
OrderTicks == 1
ShutdownRequests == 2
ShutdownTicks == 1
DeadlineRequests == 1
DeadlineTicks == 1
ErrorRequests == 2
UptimeSteps == 2
LatencySteps == 2
RecoverRequests == 1
RecoverTicks == 0
DetailedRequests == 2

\* ------------------------------------------------------------------------
\* Names
\* ------------------------------------------------------------------------
GG == "google-gemini"
HF == "hugging-face"
CO == "cohere"
GQ == "groq"
\* a name tenants may list although no such provider is configured
Unknown == "openai"

ProviderNames == {GG, HF, CO, GQ, Unknown}
Slots == 1..MaxInFlight

VARIABLES
  now,              \* Date.now()
  providers,        \* RouterEngine.providers: names of the loaded providers
  circuitBreakers,  \* RouterEngine.circuitBreakers: name -> breaker
  isInitialized,    \* RouterEngine.isInitialized
  healthData,       \* HealthMonitor.healthData: name -> entry
  tenants,          \* tenant id -> tenant configuration (config/tenants/*.json)
  upstream,         \* what each provider's makeRequest may do
  req,              \* slot -> the routeRequest call running in it
  budget,           \* tenant id -> routeRequest calls still to come
  limits,           \* last clock value and number of slots of this configuration
  calls,            \* breaker / makeRequest calls made by the last step
  lastResult,       \* how the routeRequest that finished last ended
  completed,        \* number of routeRequest calls that have finished
  streak,           \* name -> consecutive breaker failures counted from closed/0
  usageData,        \* TenantManager.usageData: tenant id -> usage record
  hits,             \* the rate limiter's store: key -> hit count and reset time
  lastHttp,         \* the HTTP answer sent by the last step, if any
  served,           \* tenant id -> responses returned with status 200
  monitor,          \* HealthMonitor: isMonitoring, the interval, the start-up timer
  late,             \* makeRequest calls that timed out and have not settled yet
  engines           \* HealthMonitors of the engines GET /health/detailed built

\* the state of the API layer around the router
apiVars == <<usageData, hits, lastHttp, served>>

vars == <<now, providers, circuitBreakers, isInitialized, healthData, tenants,
          upstream, req, budget, limits, calls, lastResult, completed, streak,
          usageData, hits, lastHttp, served, monitor, late,
          engines>>

\* ------------------------------------------------------------------------
\* Sequence helpers
\* ------------------------------------------------------------------------
RECURSIVE SeqSum(_)
SeqSum(s) == IF s = <<>> THEN 0 ELSE Head(s) + SeqSum(Tail(s))

\* Array.prototype.slice(-k)
SliceLast(s, k) ==
  IF Len(s) <= k THEN s ELSE SubSeq(s, Len(s) - k + 1, Len(s))

\* Array.prototype.filter
RECURSIVE FilterSeq(_, _)
FilterSeq(s, keep) ==
  IF s = <<>> THEN <<>>
  ELSE IF Head(s) \in keep THEN <<Head(s)>> \o FilterSeq(Tail(s), keep)
  ELSE FilterSeq(Tail(s), keep)

Range(s) == {s[i] : i \in DOMAIN s}

RECURSIVE GCD(_, _)
GCD(a, b) == IF b = 0 THEN a ELSE GCD(b, a % b)

\* a rational n/d (d > 0) in lowest terms
Ratio(n, d) ==
  LET g == GCD(IF n < 0 THEN -n ELSE n, d)
  IN  IF g = 0 THEN [n |-> 0, d |-> 1] ELSE [n |-> n \div g, d |-> d \div g]

\* ------------------------------------------------------------------------
\* Circuit breaker (RouterEngine)
\* ------------------------------------------------------------------------
\* the breaker loadProviders creates with each provider
NewBreaker ==
  [state |-> "closed", failureCount |-> 0, lastFailureTime |-> Null,
   nextAttemptTime |-> Null, threshold |-> threshold, timeout |-> timeout]

\* breaker absent from the map (circuitBreakers.get(name) === undefined)
NoBreaker == [state |-> "none", failureCount |-> 0, lastFailureTime |-> Null,
              nextAttemptTime |-> Null, threshold |-> 0, timeout |-> 0]

\* isProviderAvailable with the cool-down test written > instead of >=
isProviderAvailable_strict(b, t) ==
  IF b.state = "none" THEN [result |-> TRUE, breaker |-> b]
  ELSE IF b.state = "closed" THEN [result |-> TRUE, breaker |-> b]
  ELSE IF b.state = "open" THEN
         IF t > b.nextAttemptTime
         THEN [result |-> TRUE, breaker |-> [b EXCEPT !.state = "half-open"]]
         ELSE [result |-> FALSE, breaker |-> b]
  ELSE [result |-> TRUE, breaker |-> b]

\* isProviderAvailable: the value returned and the breaker it leaves
isProviderAvailable(b, t) ==
  IF b.state = "none" THEN [result |-> TRUE, breaker |-> b]
  ELSE IF b.state = "closed" THEN [result |-> TRUE, breaker |-> b]
  ELSE IF b.state = "open" THEN
         IF t >= b.nextAttemptTime
         THEN [result |-> TRUE, breaker |-> [b EXCEPT !.state = "half-open"]]
         ELSE [result |-> FALSE, breaker |-> b]
  ELSE [result |-> TRUE, breaker |-> b]

recordCircuitBreakerSuccess(b) ==
  IF b.state = "none" THEN b
  ELSE LET c == [b EXCEPT !.failureCount = 0, !.lastFailureTime = Null]
       IN  IF c.state = "half-open" THEN [c EXCEPT !.state = "closed"] ELSE c

\* recordCircuitBreakerFailure with the threshold test written > instead of >=
recordCircuitBreakerFailure_late(b, t) ==
  IF b.state = "none" THEN b
  ELSE LET c == [b EXCEPT !.failureCount = b.failureCount + 1,
                          !.lastFailureTime = t]
       IN  IF c.failureCount > c.threshold
           THEN [c EXCEPT !.state = "open", !.nextAttemptTime = t + c.timeout]
           ELSE c

recordCircuitBreakerFailure(b, t) ==
  IF b.state = "none" THEN b
  ELSE LET c == [b EXCEPT !.failureCount = b.failureCount + 1,
                          !.lastFailureTime = t]
       IN  IF c.failureCount >= c.threshold
           THEN [c EXCEPT !.state = "open", !.nextAttemptTime = t + c.timeout]
           ELSE c

\* ------------------------------------------------------------------------
\* HealthMonitor
\* ------------------------------------------------------------------------
\* healthData[name] === undefined
NoHealth == [exists |-> FALSE, uptime |-> [n |-> 1, d |-> 1],
             avg_latency |-> [n |-> initialLatency, d |-> 1],
             history |-> <<>>, consecutive_failures |-> 0, log |-> ""]

HealthySamples(s) == SelectSeq(s, LAMBDA h : h.status = "healthy")

Latencies(s) == [i \in DOMAIN s |-> s[i].latency]

\* the logger call at the end of updateHealthData: provider.consecutive_failures
\* has been assigned newData.consecutive_failures before the test
HealthLog(stored, cf) ==
  IF cf = 3 THEN "warn"
  ELSE IF stored > 0 /\ cf = 0 THEN "info"
  ELSE ""

\* updateHealthData that never shifts the history
updateHealthData_nocap(entry, sample, cf) ==
  LET base    == IF entry.exists THEN entry
                 ELSE [NoHealth EXCEPT !.exists = TRUE]
      history == Append(base.history, sample)
      recent  == SliceLast(history, recentWindow)
      healthy == HealthySamples(recent)
      uptime  == Ratio(Len(healthy), Len(recent))
      avg     == IF Len(healthy) > 0
                 THEN Ratio(SeqSum(Latencies(healthy)), Len(healthy))
                 ELSE base.avg_latency
  IN  [exists |-> TRUE, uptime |-> uptime, avg_latency |-> avg,
       history |-> history, consecutive_failures |-> cf,
       log |-> HealthLog(cf, cf)]

\* updateHealthData whose uptime is taken over the whole history
updateHealthData_wholeHistory(entry, sample, cf) ==
  LET base    == IF entry.exists THEN entry
                 ELSE [NoHealth EXCEPT !.exists = TRUE]
      pushed  == Append(base.history, sample)
      history == IF Len(pushed) > historyCap THEN Tail(pushed) ELSE pushed
      recent  == SliceLast(history, recentWindow)
      healthy == HealthySamples(recent)
      uptime  == Ratio(Len(HealthySamples(history)), Len(history))
      avg     == IF Len(healthy) > 0
                 THEN Ratio(SeqSum(Latencies(healthy)), Len(healthy))
                 ELSE base.avg_latency
  IN  [exists |-> TRUE, uptime |-> uptime, avg_latency |-> avg,
       history |-> history, consecutive_failures |-> cf,
       log |-> HealthLog(cf, cf)]

\* updateHealthData(providerName, newData); timestamps and error texts are
\* written but never read by the router and are left out of a sample
updateHealthData(entry, sample, cf) ==
  LET base    == IF entry.exists THEN entry
                 ELSE [NoHealth EXCEPT !.exists = TRUE]
      pushed  == Append(base.history, sample)
      history == IF Len(pushed) > historyCap THEN Tail(pushed) ELSE pushed
      recent  == SliceLast(history, recentWindow)
      healthy == HealthySamples(recent)
      uptime  == IF Len(recent) > 0 THEN Ratio(Len(healthy), Len(recent))
                 ELSE base.uptime
      avg     == IF Len(healthy) > 0
                 THEN Ratio(SeqSum(Latencies(healthy)), Len(healthy))
                 ELSE base.avg_latency
  IN  [exists |-> TRUE, uptime |-> uptime, avg_latency |-> avg,
       history |-> history, consecutive_failures |-> cf,
       log |-> HealthLog(cf, cf)]

\* HealthMonitor.recordSuccess(providerName, latency)
recordSuccess(entry, latency) ==
  updateHealthData(entry, [status |-> "healthy", latency |-> latency], 0)

\* recordFailure that restarts the count with every failure
recordFailure_restart(entry) ==
  updateHealthData(entry,
                   [status |-> "unhealthy", latency |-> unhealthyLatency], 1)

\* HealthMonitor.recordFailure(providerName, error)
recordFailure(entry) ==
  updateHealthData(entry,
                   [status |-> "unhealthy", latency |-> unhealthyLatency],
                   (IF entry.exists THEN entry.consecutive_failures ELSE 0) + 1)

\* checkProvider(name, config) after provider.healthCheck() has returned
\* { status } and latency ms have passed
checkProvider(entry, status, latency) ==
  updateHealthData(entry, [status |-> status, latency |-> latency],
                   IF status = "healthy" THEN 0
                   ELSE (IF entry.exists THEN entry.consecutive_failures ELSE 0) + 1)

\* checkProvider(name, config) when the provider cannot be built or its
\* healthCheck throws: the catch block
checkProviderCatch(entry) ==
  updateHealthData(entry,
                   [status |-> "unhealthy", latency |-> unhealthyLatency],
                   (IF entry.exists THEN entry.consecutive_failures ELSE 0) + 1)

\* new HealthMonitor(); intervals counts the setInterval timers that were set
\* and not cleared, lastCheck tells whether the last checkAllProviders ran
\* while the monitor was monitoring
NewMonitor ==
  [isMonitoring |-> FALSE, healthCheckInterval |-> FALSE, initialCheck |-> FALSE,
   intervals |-> 0, lastCheck |-> ""]

\* startMonitoring(): the interval is set and the first check is scheduled
\* with a setTimeout of its own
startMonitoring(m) ==
  IF m.isMonitoring THEN m
  ELSE [m EXCEPT !.isMonitoring = TRUE, !.healthCheckInterval = TRUE,
                 !.initialCheck = TRUE, !.intervals = @ + 1]

\* stopMonitoring(): clears the interval; the start-up timer is not cleared
stopMonitoring(m) ==
  [m EXCEPT !.healthCheckInterval = FALSE, !.isMonitoring = FALSE,
            !.intervals = IF m.healthCheckInterval THEN @ - 1 ELSE @]

\* checkAllProviders() with the provider file awaited: the two configured
\* providers are probed and answer
checkAllProviders_awaited(hd) ==
  [p \in DOMAIN hd |->
     IF p \in {GG, HF} THEN checkProvider(hd[p], "healthy", 0) ELSE hd[p]]

\* checkAllProviders(): ConfigLoader.loadProviders() is async and is not
\* awaited, Object.entries of the promise is empty, no provider is probed
checkAllProviders(hd) == hd

\* ------------------------------------------------------------------------
\* TenantManager
\* ------------------------------------------------------------------------
\* usageData.get(tenantId) === undefined; getUsage then answers zeros
NoUsage ==
  [exists |-> FALSE, daily_requests |-> 0, monthly_requests |-> 0,
   total_tokens |-> 0, estimated_cost |-> 0, last_reset |-> Null]

\* tenant.quotas: present stands for the object being there, a value of 0 for
\* a missing or zero entry (both are falsy)
Quotas(daily, monthly, rate) ==
  [present |-> TRUE, daily_requests |-> daily, monthly_requests |-> monthly,
   rate_limit_per_minute |-> rate]

NoQuotas ==
  [present |-> FALSE, daily_requests |-> 0, monthly_requests |-> 0,
   rate_limit_per_minute |-> 0]

\* checkQuota(tenantId, quotaType); limit -1 stands for Infinity
checkQuota(tenant, usage, quotaType) ==
  IF ~tenant.quotas.present
    THEN [allowed |-> TRUE, limit |-> -1, used |-> 0]
  ELSE LET limit == IF tenant.quotas[quotaType] = 0 THEN defaultQuota
                    ELSE tenant.quotas[quotaType]
           used  == usage[quotaType]
           remaining == IF limit - used > 0 THEN limit - used ELSE 0
       IN  [allowed |-> remaining > 0, limit |-> limit, used |-> used]

\* trackUsage storing the request's figures in place of adding them
trackUsage_overwrite(usage, total_tokens, estimated_cost, t) ==
  [exists |-> TRUE, daily_requests |-> 1, monthly_requests |-> 1,
   total_tokens |-> total_tokens, estimated_cost |-> estimated_cost,
   last_reset |-> IF usage.exists THEN usage.last_reset ELSE t]

\* trackUsage(tenantId, usage) at time t
trackUsage(usage, total_tokens, estimated_cost, t) ==
  LET base == IF usage.exists THEN usage
              ELSE [NoUsage EXCEPT !.exists = TRUE, !.last_reset = t]
      inc  == [base EXCEPT !.daily_requests = @ + 1,
                           !.monthly_requests = @ + 1,
                           !.total_tokens = @ + total_tokens,
                           !.estimated_cost = @ + estimated_cost]
  IN  IF inc.last_reset < t - dayMs
        THEN [inc EXCEPT !.daily_requests = 1, !.last_reset = t]
      ELSE inc

\* ------------------------------------------------------------------------
\* Rate limiter
\* ------------------------------------------------------------------------
\* max(req): the tenant's limit
maxRequests(tenant) ==
  IF tenant.quotas.present
    THEN IF tenant.quotas.rate_limit_per_minute = 0 THEN defaultRateLimit
         ELSE tenant.quotas.rate_limit_per_minute
  ELSE defaultRateLimit

\* one key for every tenant
keyGenerator_shared(tenantId) == "tenant-a"

\* keyGenerator(req): one counter per authenticated tenant
keyGenerator(tenantId) == tenantId

\* a key without a counter
NoHits == [count |-> 0, resetTime |-> Null]

\* the store's increment for one key at time t: a fixed window that starts
\* with the first hit and lasts windowMs
increment(h, t) ==
  IF h.resetTime = Null \/ t >= h.resetTime
    THEN [count |-> 1, resetTime |-> t + windowMs]
  ELSE [h EXCEPT !.count = @ + 1]

\* ------------------------------------------------------------------------
\* PolicyEngine
\* ------------------------------------------------------------------------
\* getDefaultPolicies(): the policies in force when config/policies/routing.json
\* is absent; min_uptime as a fraction, weights in tenths
Policies ==
  [x \in {"performance-first", "cost-optimized", "balanced"} |->
     IF x = "performance-first"
       THEN [strategy |-> x, min_uptime |-> [n |-> 90, d |-> 100],
             weights |-> [cost |-> 3, latency |-> 4, uptime |-> 3]]
     ELSE IF x = "cost-optimized"
       THEN [strategy |-> x, min_uptime |-> [n |-> 95, d |-> 100],
             weights |-> [cost |-> 3, latency |-> 4, uptime |-> 3]]
     ELSE [strategy |-> x, min_uptime |-> [n |-> 90, d |-> 100],
           weights |-> [cost |-> 3, latency |-> 4, uptime |-> 3]]]

\* this.policies[policyName] || this.policies['balanced']
PolicyFor(policyName) ==
  IF policyName \in DOMAIN Policies THEN Policies[policyName]
  ELSE Policies["balanced"]

\* getProviderCost, in thousandths of a dollar per token:
\* defaultCosts[providerName] || 0.002 (a listed cost of 0.0 is falsy)
getProviderCost(providerName) ==
  LET listed == IF providerName = GG THEN 1
                ELSE IF providerName = HF THEN 0
                ELSE IF providerName = CO THEN 2
                ELSE 0
  IN  IF listed = 0 THEN 2 ELSE listed

RatLess(x, y) == x.n * y.d < y.n * x.d
RatLeq(x, y) == x.n * y.d <= y.n * x.d

\* Array.prototype.sort with a comparator key(a) - key(b): ascending by key,
\* equal keys keep their input order (V8's sort is stable)
RECURSIVE InsertSorted(_, _)
InsertSorted(sorted, x) ==
  IF sorted = <<>> THEN <<x>>
  ELSE IF RatLess(x.key, Head(sorted).key) THEN <<x>> \o sorted
  ELSE <<Head(sorted)>> \o InsertSorted(Tail(sorted), x)

RECURSIVE StableSort(_, _)
StableSort(items, acc) ==
  IF items = <<>> THEN acc
  ELSE StableSort(Tail(items), InsertSorted(acc, Head(items)))

SortedNames(items) ==
  LET s == StableSort(items, <<>>) IN [i \in DOMAIN s |-> s[i].name]

\* calculateScore, as the exact rational 10 * totalScore (the code computes
\* it in floating point)
calculateScore(providerName, health) ==
  LET w       == Policies["balanced"].weights
      \* health.uptime || 0.5
      uptime  == IF ~health.exists \/ health.uptime.n = 0
                 THEN [n |-> 1, d |-> 2] ELSE health.uptime
      \* health.avg_latency || 1000
      latency == IF ~health.exists \/ health.avg_latency.n = 0
                 THEN [n |-> 1000, d |-> 1] ELSE health.avg_latency
      cost    == getProviderCost(providerName)
      \* Math.min(uptime, 1.0)
      us      == IF RatLess([n |-> 1, d |-> 1], uptime)
                 THEN [n |-> 1, d |-> 1] ELSE uptime
      \* Math.max(0, 1 - latency / 2000)
      ls      == IF 2000 * latency.d - latency.n > 0
                 THEN Ratio(2000 * latency.d - latency.n, 2000 * latency.d)
                 ELSE [n |-> 0, d |-> 1]
      \* Math.max(0, 1 - cost / 0.01), in tenths
      cs      == IF 10 - cost > 0 THEN 10 - cost ELSE 0
  IN  Ratio(w.uptime * us.n * ls.d * 10 + w.latency * ls.n * us.d * 10
              + w.cost * cs * us.d * ls.d,
            us.d * ls.d * 10)

\* selectByCost
selectByCost(provs) ==
  SortedNames([i \in DOMAIN provs |->
                 [name |-> provs[i],
                  key |-> [n |-> getProviderCost(provs[i]), d |-> 1]]])

\* selectByLatency: healthData[a]?.avg_latency || 999999
selectByLatency(provs, hd) ==
  SortedNames([i \in DOMAIN provs |->
                 [name |-> provs[i],
                  key |-> IF ~hd[provs[i]].exists \/ hd[provs[i]].avg_latency.n = 0
                          THEN [n |-> 999999, d |-> 1]
                          ELSE hd[provs[i]].avg_latency]])

\* selectByScore: descending by score
selectByScore(provs, hd) ==
  SortedNames([i \in DOMAIN provs |->
                 [name |-> provs[i],
                  key |-> LET s == calculateScore(provs[i], hd[provs[i]])
                          IN  [n |-> -s.n, d |-> s.d]]])

\* selectProviders whose fallback, when no candidate passes the floor, is every
\* provider with health data instead of the candidates
selectProviders_fallbackAll(availableProviders, hd, policyName) ==
  LET policy  == PolicyFor(policyName)
      passing == {p \in Range(availableProviders) :
                    ~hd[p].exists \/ RatLeq(policy.min_uptime, hd[p].uptime)}
      healthyProviders == FilterSeq(availableProviders, passing)
  IN  IF healthyProviders = <<>>
        THEN FilterSeq(<<GG, HF, CO, GQ>>, {p \in DOMAIN hd : hd[p].exists})
      ELSE IF policy.strategy = "cost-optimized" THEN selectByCost(healthyProviders)
      ELSE IF policy.strategy = "performance-first"
        THEN selectByLatency(healthyProviders, hd)
      ELSE selectByScore(healthyProviders, hd)

\* selectProviders without the min_uptime floor
selectProviders_nofloor(availableProviders, hd, policyName) ==
  LET policy == PolicyFor(policyName)
  IN  IF policy.strategy = "cost-optimized" THEN selectByCost(availableProviders)
      ELSE IF policy.strategy = "performance-first"
        THEN selectByLatency(availableProviders, hd)
      ELSE selectByScore(availableProviders, hd)

\* selectProviders(availableProviders, healthData, policyName, request)
selectProviders(availableProviders, hd, policyName) ==
  LET policy  == PolicyFor(policyName)
      passing == {p \in Range(availableProviders) :
                    ~hd[p].exists \/ RatLeq(policy.min_uptime, hd[p].uptime)}
      healthyProviders == FilterSeq(availableProviders, passing)
  IN  IF healthyProviders = <<>> THEN availableProviders
      ELSE IF policy.strategy = "cost-optimized" THEN selectByCost(healthyProviders)
      ELSE IF policy.strategy = "performance-first"
        THEN selectByLatency(healthyProviders, hd)
      ELSE selectByScore(healthyProviders, hd)

\* ------------------------------------------------------------------------
\* RouterEngine: one synchronous run of the router over its mutable state
\* st = [cb, hd, attempts, reports, calls, streak]
\* ------------------------------------------------------------------------
\* this.circuitBreakers.get(name)
Breaker(cb, name) == IF name \in DOMAIN cb THEN cb[name] ELSE NoBreaker

PutBreaker(cb, name, b) ==
  IF name \in DOMAIN cb THEN [cb EXCEPT ![name] = b] ELSE cb

Call(op, name, t, pre, post, result) ==
  [op |-> op, provider |-> name, at |-> t, pre |-> pre, post |-> post,
   result |-> result]

\* consecutive recordCircuitBreakerFailure calls since the breaker was last
\* closed with failureCount 0; -1 once the run is over
StreakAfterFailure(k) == IF k >= 0 /\ k < threshold THEN k + 1 ELSE -1
StreakAfterSuccess(post) == IF post.state = "closed" THEN 0 ELSE -1

\* a call of this.isProviderAvailable(name)
DoIsAvailable(st, name, t) ==
  LET pre == Breaker(st.cb, name)
      r   == isProviderAvailable(pre, t)
  IN  [result |-> r.result,
       st |-> [st EXCEPT !.cb = PutBreaker(st.cb, name, r.breaker),
                         !.calls = Append(st.calls,
                            Call("isProviderAvailable", name, t, pre,
                                 r.breaker, r.result))]]

\* a call of this.recordCircuitBreakerSuccess(name)
DoBreakerSuccess(st, name, t) ==
  LET pre  == Breaker(st.cb, name)
      post == recordCircuitBreakerSuccess(pre)
  IN  [st EXCEPT !.cb = PutBreaker(st.cb, name, post),
                 !.streak[name] = StreakAfterSuccess(post),
                 !.calls = Append(st.calls,
                    Call("recordCircuitBreakerSuccess", name, t, pre, post, TRUE))]

\* a call of this.recordCircuitBreakerFailure(name)
DoBreakerFailure(st, name, t) ==
  LET pre  == Breaker(st.cb, name)
      post == recordCircuitBreakerFailure(pre, t)
  IN  [st EXCEPT !.cb = PutBreaker(st.cb, name, post),
                 !.streak[name] = StreakAfterFailure(st.streak[name]),
                 !.calls = Append(st.calls,
                    Call("recordCircuitBreakerFailure", name, t, pre, post, TRUE))]

\* the candidate filter without the hasProvider test
RECURSIVE FilterCandidates_noload(_, _, _, _)
FilterCandidates_noload(st, names, t, kept) ==
  IF names = <<>> THEN [st |-> st, loadedProviders |-> kept]
  ELSE LET name == Head(names)
           a    == DoIsAvailable(st, name, t)
       IN  FilterCandidates_noload(a.st, Tail(names), t,
                                   IF a.result THEN Append(kept, name) ELSE kept)

\* routeRequest's candidate filter: isProviderAvailable is called for every
\* listed name, loaded or not; the names kept are loaded and available
RECURSIVE FilterCandidates(_, _, _, _)
FilterCandidates(st, names, t, kept) ==
  IF names = <<>> THEN [st |-> st, loadedProviders |-> kept]
  ELSE LET name == Head(names)
           a    == DoIsAvailable(st, name, t)
       IN  FilterCandidates(a.st, Tail(names), t,
                            IF name \in providers /\ a.result
                            THEN Append(kept, name) ELSE kept)

\* how often calls from position from on hold operation op for name
CountCalls(cs, from, name, op) ==
  Cardinality({i \in DOMAIN cs :
                 i > from /\ cs[i].provider = name /\ cs[i].op = op})

\* one loop iteration of executeWithFailover has ended for name: how often it
\* invoked recordCircuitBreakerSuccess and recordCircuitBreakerFailure
Reported(st, from, name) ==
  [st EXCEPT !.reports = Append(st.reports,
     [provider |-> name,
      success |-> CountCalls(st.calls, from, name, "recordCircuitBreakerSuccess"),
      failure |-> CountCalls(st.calls, from, name, "recordCircuitBreakerFailure")])]

Attempt(name, status, error, duration) ==
  [provider |-> name, status |-> status, error |-> error, duration |-> duration]

\* the catch block of executeWithFailover
CatchFailure(st, name, error, duration, t) ==
  LET pushed == [st EXCEPT !.attempts =
                    Append(st.attempts, Attempt(name, "failed", error, duration))]
      health == [pushed EXCEPT !.hd[name] = recordFailure(pushed.hd[name])]
  IN  DoBreakerFailure(health, name, t)

\* the success path of executeWithFailover up to attempts.push
RecordOutcomeSuccess(st, name, duration, t) ==
  LET health == [st EXCEPT !.hd[name] = recordSuccess(st.hd[name], duration)]
      broken == DoBreakerSuccess(health, name, t)
  IN  [broken EXCEPT !.attempts =
          Append(broken.attempts, Attempt(name, "success", "", duration))]

\* the for loop of executeWithFailover from position i, at time t, up to the
\* next await: a provider missing from the map fails on the spot, a loaded one
\* has its makeRequest started, the end of the list throws
RECURSIVE Advance(_, _, _, _)
Advance(st, ordered, i, t) ==
  IF i > Len(ordered)
    THEN [kind |-> "AllProvidersFailed", idx |-> i, st |-> st]
  ELSE IF ordered[i] \notin providers
    THEN Advance(Reported(CatchFailure(st, ordered[i], "not loaded", 0, t),
                          Len(st.calls), ordered[i]),
                 ordered, i + 1, t)
  ELSE [kind |-> "awaiting", idx |-> i,
        st |-> [st EXCEPT !.calls = Append(st.calls,
                   Call("makeRequest", ordered[i], t,
                        Breaker(st.cb, ordered[i]),
                        Breaker(st.cb, ordered[i]), TRUE))]]

\* ------------------------------------------------------------------------
\* State of a routeRequest call and of the engine
\* ------------------------------------------------------------------------
TenantIds == {"tenant-a", "tenant-b"}

IdleReq ==
  [pc |-> "idle", tenant |-> "", ordered |-> <<>>, idx |-> 0, startTime |-> 0,
   attempts |-> <<>>, reports |-> <<>>, admitted |-> "none",
   userMessage |-> TRUE]

NoResult ==
  [kind |-> "none", tenant |-> "", ordered |-> <<>>, attempts |-> <<>>,
   reports |-> <<>>, primary_provider |-> "", lastError |-> "", policy_used |-> ""]

\* no HTTP answer was sent
NoHttp ==
  [status |-> 0, type |-> "", tenant |-> "", total_tokens |-> 0,
   attempts |-> <<>>, providers_attempted |-> 0, choices |-> FALSE]

\* tenantConfig.providers?.enabled || ['google-gemini']
EnabledOf(tenant) == IF tenant.listed THEN tenant.enabled ELSE <<GG>>

\* tenantConfig.providers?.routing_policy || 'balanced'
PolicyOf(tenant) ==
  IF tenant.routing_policy = "" THEN "balanced" ELSE tenant.routing_policy

\* the engine's mutable state at the start of a run
St(attempts, reports) ==
  [cb |-> circuitBreakers, hd |-> healthData, attempts |-> attempts,
   reports |-> reports, calls |-> <<>>, streak |-> streak]

Store(st) ==
  /\ circuitBreakers' = st.cb
  /\ healthData' = st.hd
  /\ streak' = st.streak
  /\ calls' = st.calls

IdleSlots == {r \in Slots : r <= limits.slots /\ req[r].pc = "idle"}

\* the slot a new call runs in
FreeSlot == CHOOSE r \in IdleSlots : \A q \in IdleSlots : r <= q

\* error.lastError = lastError?.message
LastErrorOf(attempts) ==
  LET failed == SelectSeq(attempts, LAMBDA a : a.status = "failed")
  IN  IF failed = <<>> THEN "" ELSE failed[Len(failed)].error

\* a run ends at the next await, or with the call rejected. userMessage: the
\* request holds a message of role 'user'; the adapter's makeRequest calls
\* axios.post (pc "awaiting") only then, otherwise its transformRequest has
\* thrown and the promise awaited is already rejected (pc "unsent")
SettleBody(r, tn, ordered, res, userMessage) ==
  /\ Store(res.st)
  /\ IF res.kind = "awaiting"
       THEN /\ req' = [req EXCEPT ![r] =
                   [pc |-> IF userMessage THEN "awaiting" ELSE "unsent",
                    tenant |-> tn, ordered |-> ordered,
                    idx |-> res.idx, startTime |-> now,
                    attempts |-> res.st.attempts,
                    reports |-> res.st.reports,
                    admitted |-> Breaker(res.st.cb, ordered[res.idx]).state,
                    userMessage |-> userMessage]]
            /\ lastResult' = NoResult
            /\ completed' = completed
       ELSE /\ req' = [req EXCEPT ![r] = IdleReq]
            /\ lastResult' =
                 [kind |-> res.kind, tenant |-> tn, ordered |-> ordered,
                  attempts |-> res.st.attempts,
                  reports |-> res.st.reports, primary_provider |-> "",
                  lastError |-> LastErrorOf(res.st.attempts),
                  policy_used |-> ""]
            /\ completed' = completed + 1

\* the run of a request in slot r goes on with the same request
Settle(r, tn, ordered, res) ==
  SettleBody(r, tn, ordered, res, req[r].userMessage)

\* ------------------------------------------------------------------------
\* Actions of the router
\* ------------------------------------------------------------------------
\* routeRequest(request, tenant) up to its first await
RouteBody(tn, userMessage) ==
  /\ budget[tn] > 0
  /\ budget["all"] > 0
  /\ IdleSlots # {}
  /\ budget' = [budget EXCEPT ![tn] = @ - 1, !["all"] = @ - 1]
  /\ UNCHANGED upstream
  /\ UNCHANGED <<now, providers, isInitialized, tenants, limits>>
  /\ LET r == FreeSlot
     IN  IF ~isInitialized
           THEN SettleBody(r, tn, <<>>,
                       [kind |-> "NotInitialized", idx |-> 0,
                        st |-> St(<<>>, <<>>)], userMessage)
         ELSE
           LET f == FilterCandidates(St(<<>>, <<>>), EnabledOf(tenants[tn]), now, <<>>)
           IN  IF f.loadedProviders = <<>>
                 THEN SettleBody(r, tn, <<>>,
                             [kind |-> "NoProvidersAvailable", idx |-> 0,
                              st |-> f.st], userMessage)
               ELSE
                 LET orderedProviders ==
                       selectProviders(f.loadedProviders, f.st.hd,
                                       PolicyOf(tenants[tn]))
                 IN  SettleBody(r, tn, orderedProviders,
                                Advance(f.st, orderedProviders, 1, now),
                                userMessage)

\* a request that passed validation and holds a message of role 'user'
RouteRequest(tn) == RouteBody(tn, TRUE)

\* a request that passed validation and holds no message of role 'user'
RouteNoUser(tn) == RouteBody(tn, FALSE)

\* what a provider's makeRequest may do: mode "any", "up" (always answers) or
\* "down" (never answers); its first failFirst calls to end fail in any mode
Upstream(mode, failFirst) == [mode |-> mode, failFirst |-> failFirst]
MaySucceed(p) == upstream[p].mode \in {"any", "up"} /\ upstream[p].failFirst = 0
MayReturnNull(p) == upstream[p].mode = "any" /\ upstream[p].failFirst = 0
MayFail(p) == upstream[p].mode \in {"any", "down"} \/ upstream[p].failFirst > 0
Failed(p) ==
  upstream' = [upstream EXCEPT ![p].failFirst = IF @ > 0 THEN @ - 1 ELSE 0]

Awaiting(r) == req[r].pc = "awaiting"
Current(r) == req[r].ordered[req[r].idx]
Elapsed(r) == now - req[r].startTime

\* makeRequest resolves with a response object: the success path, return
ResolveResponse(r) ==
  /\ Awaiting(r)
  /\ MaySucceed(Current(r))
  /\ UNCHANGED upstream
  /\ Elapsed(r) <= requestTimeoutMs
  /\ LET st == Reported(RecordOutcomeSuccess(St(req[r].attempts, req[r].reports),
                                             Current(r), Elapsed(r), now),
                        0, Current(r))
     IN  /\ Store(st)
         /\ req' = [req EXCEPT ![r] = IdleReq]
         /\ lastResult' =
              [kind |-> "response", tenant |-> req[r].tenant,
               ordered |-> req[r].ordered, attempts |-> st.attempts,
               reports |-> st.reports, primary_provider |-> Current(r), lastError |-> "",
               policy_used |-> "intelligent_routing"]
  /\ completed' = completed + 1
  /\ UNCHANGED <<now, providers, isInitialized, tenants, budget, limits>>

\* makeRequest resolves with null or undefined: the success path runs up to
\* attempts.push, response.routing_metadata = ... throws a TypeError, and the
\* catch block runs for the same provider
ResolveNull(r) ==
  /\ Awaiting(r)
  /\ MayReturnNull(Current(r))
  /\ UNCHANGED upstream
  /\ Elapsed(r) <= requestTimeoutMs
  /\ LET ok == RecordOutcomeSuccess(St(req[r].attempts, req[r].reports),
                                    Current(r), Elapsed(r), now)
         st == Reported(CatchFailure(ok, Current(r), "TypeError", Elapsed(r), now),
                        0, Current(r))
     IN  Settle(r, req[r].tenant, req[r].ordered,
                Advance(st, req[r].ordered, req[r].idx + 1, now))
  /\ UNCHANGED <<now, providers, isInitialized, tenants, budget, limits>>

\* makeRequest rejects before the deadline
Reject(r) ==
  /\ Awaiting(r)
  /\ MayFail(Current(r))
  /\ Failed(Current(r))
  /\ Elapsed(r) <= requestTimeoutMs
  /\ LET st == Reported(CatchFailure(St(req[r].attempts, req[r].reports),
                                     Current(r), "rejected", Elapsed(r), now),
                        0, Current(r))
     IN  Settle(r, req[r].tenant, req[r].ordered,
                Advance(st, req[r].ordered, req[r].idx + 1, now))
  /\ UNCHANGED <<now, providers, isInitialized, tenants, budget, limits>>

\* the setTimeout of executeWithTimeout fires first
Timeout(r) ==
  /\ Awaiting(r)
  /\ MayFail(Current(r))
  /\ Failed(Current(r))
  /\ Elapsed(r) >= requestTimeoutMs
  /\ LET st == Reported(CatchFailure(St(req[r].attempts, req[r].reports),
                                     Current(r), "timeout", Elapsed(r), now),
                        0, Current(r))
     IN  Settle(r, req[r].tenant, req[r].ordered,
                Advance(st, req[r].ordered, req[r].idx + 1, now))
  /\ UNCHANGED <<now, providers, isInitialized, tenants, budget, limits>>

\* the catch block for a makeRequest that rejected out of transformRequest
\* (userMessage.content of undefined), before axios.post was called
RejectUnsent(r) ==
  /\ req[r].pc = "unsent"
  /\ UNCHANGED upstream
  /\ LET st == Reported(CatchFailure(St(req[r].attempts, req[r].reports),
                                     Current(r), "no user message",
                                     Elapsed(r), now),
                        0, Current(r))
     IN  Settle(r, req[r].tenant, req[r].ordered,
                Advance(st, req[r].ordered, req[r].idx + 1, now))
  /\ UNCHANGED <<now, providers, isInitialized, tenants, budget, limits>>

\* the clock advances by one deadline; a timer that is due fires first
Tick ==
  /\ now < limits.horizon
  /\ \A r \in Slots : Awaiting(r) => Elapsed(r) < requestTimeoutMs
  /\ now' = now + requestTimeoutMs
  /\ calls' = <<>>
  /\ lastResult' = NoResult
  /\ UNCHANGED <<providers, circuitBreakers, isInitialized, healthData, tenants,
                 upstream, req, budget, limits, completed, streak>>

\* ------------------------------------------------------------------------
\* Initial states
\* ------------------------------------------------------------------------
\* the state after new RouterEngine() with the given providers loaded
Constructed(loaded) ==
  /\ now = 0
  /\ providers = loaded
  /\ circuitBreakers = [p \in loaded |-> NewBreaker]
  /\ isInitialized = TRUE
  /\ healthData = [p \in ProviderNames |-> NoHealth]
  /\ req = [r \in Slots |-> IdleReq]
  /\ calls = <<>>
  /\ lastResult = NoResult
  /\ completed = 0
  /\ streak = [p \in ProviderNames |-> IF p \in loaded THEN 0 ELSE -1]
  /\ usageData = [t \in TenantIds |-> NoUsage]
  /\ hits = [t \in TenantIds |-> NoHits]
  /\ lastHttp = NoHttp
  /\ served = [t \in TenantIds |-> [responses |-> 0, total_tokens |-> 0, since |-> Null]]
  /\ monitor = startMonitoring(NewMonitor)
  /\ late = {}
  /\ engines = <<>>

Tenant(enabled, policy) ==
  [listed |-> TRUE, enabled |-> enabled, routing_policy |-> policy]

Limits(horizon, slots) == [horizon |-> horizon, slots |-> slots]

\* the tenant files: tenant-a may use one provider, tenant-b both and a name
\* that is not configured
NarrowTenants ==
  [t \in TenantIds |->
     IF t = "tenant-a" THEN Tenant(<<GG>>, "")
     ELSE Tenant(<<HF, Unknown, GG>>, "performance-first")]

\* routeRequest calls to come: of tenant-a, of tenant-b, and in all
Budget(a, b, all) ==
  [t \in TenantIds \cup {"all"} |->
     IF t = "tenant-a" THEN a ELSE IF t = "tenant-b" THEN b ELSE all]

\* two providers whose upstreams may do anything
Init ==
  /\ Constructed({GG, HF})
  /\ tenants = NarrowTenants
  /\ upstream = [p \in ProviderNames |-> Upstream("any", 0)]
  /\ budget = Budget(MaxRequests, MaxRequests, MaxRequests)
  /\ limits = Limits(MaxTicks * requestTimeoutMs, MaxInFlight)

\* routeRequest called directly: the API layer's state stays as it is
Next ==
  \/ \E tn \in TenantIds : RouteRequest(tn) /\ UNCHANGED <<apiVars, monitor, late, engines>>
  \/ \E r \in Slots : ResolveResponse(r) /\ UNCHANGED <<apiVars, monitor, late, engines>>
  \/ \E r \in Slots : ResolveNull(r) /\ UNCHANGED <<apiVars, monitor, late, engines>>
  \/ \E r \in Slots : Reject(r) /\ UNCHANGED <<apiVars, monitor, late, engines>>
  \/ \E r \in Slots : Timeout(r) /\ UNCHANGED <<apiVars, monitor, late, engines>>
  \/ Tick /\ UNCHANGED <<apiVars, monitor, late, engines>>

Spec == Init /\ [][Next]_vars

\* tenant-a may use one provider, tenant-b four
WideTenants ==
  [t \in TenantIds |->
     IF t = "tenant-a" THEN Tenant(<<GG>>, "")
     ELSE Tenant(<<HF, CO, GQ, GG>>, "performance-first")]

\* four providers: google-gemini is down for its first OutageCalls calls, the
\* others are down throughout; the clock runs past one cool-down
InitOutage ==
  /\ Constructed({GG, HF, CO, GQ})
  /\ tenants = WideTenants
  /\ upstream = [p \in ProviderNames |->
                   IF p = GG THEN Upstream("any", OutageCalls)
                   ELSE Upstream("down", 0)]
  /\ budget = Budget(OutageCalls + OutageRequests, 1,
                     OutageCalls + OutageRequests)
  /\ limits = Limits(timeout + OutageTicks * requestTimeoutMs, MaxInFlight)

SpecOutage == InitOutage /\ [][Next]_vars

\* ------------------------------------------------------------------------
\* The breaker methods called directly, as tests/circuitBreaker.test.js does
\* ------------------------------------------------------------------------
Direct(st) ==
  /\ Store(st)
  /\ lastResult' = NoResult
  /\ UNCHANGED <<now, providers, isInitialized, tenants, upstream, req, budget,
                 limits, completed>>

CallIsProviderAvailable(p) ==
  Direct(DoIsAvailable(St(<<>>, <<>>), p, now).st)

CallRecordCircuitBreakerSuccess(p) ==
  Direct(DoBreakerSuccess(St(<<>>, <<>>), p, now))

CallRecordCircuitBreakerFailure(p) ==
  /\ Breaker(circuitBreakers, p).failureCount < MaxFailures
  /\ Direct(DoBreakerFailure(St(<<>>, <<>>), p, now))

InitBreaker ==
  /\ Constructed({GG})
  /\ tenants = NarrowTenants
  /\ upstream = [p \in ProviderNames |-> Upstream("any", 0)]
  /\ budget = Budget(0, 0, 0)
  /\ limits = Limits(timeout + BreakerTicks * requestTimeoutMs, MaxInFlight)

NextBreaker ==
  \/ \E p \in {GG, Unknown} : CallIsProviderAvailable(p) /\ UNCHANGED <<apiVars, monitor, late, engines>>
  \/ \E p \in {GG, Unknown} :
       CallRecordCircuitBreakerSuccess(p) /\ UNCHANGED <<apiVars, monitor, late, engines>>
  \/ \E p \in {GG, Unknown} :
       CallRecordCircuitBreakerFailure(p) /\ UNCHANGED <<apiVars, monitor, late, engines>>
  \/ Tick /\ UNCHANGED <<apiVars, monitor, late, engines>>

SpecBreaker == InitBreaker /\ [][NextBreaker]_vars

\* ------------------------------------------------------------------------
\* One provider down, one up, requests one after another
\* ------------------------------------------------------------------------
BothTenants ==
  [t \in TenantIds |->
     IF t = "tenant-a" THEN Tenant(<<GG, HF>>, "balanced")
     ELSE Tenant(<<HF, GG>>, "cost-optimized")]

InitFailover ==
  /\ Constructed({GG, HF})
  /\ tenants = BothTenants
  /\ upstream = [p \in ProviderNames |->
                   IF p = GG THEN Upstream("down", 0) ELSE Upstream("up", 0)]
  /\ budget = Budget(FailoverRequests, FailoverRequests, FailoverRequests)
  /\ limits = Limits(FailoverTicks * requestTimeoutMs, 1)

NextFailover ==
  \/ \E tn \in TenantIds : RouteRequest(tn) /\ UNCHANGED <<apiVars, monitor, late, engines>>
  \/ \E r \in Slots : ResolveResponse(r) /\ UNCHANGED <<apiVars, monitor, late, engines>>
  \/ \E r \in Slots : Reject(r) /\ UNCHANGED <<apiVars, monitor, late, engines>>
  \/ \E r \in Slots : Timeout(r) /\ UNCHANGED <<apiVars, monitor, late, engines>>
  \/ Tick /\ UNCHANGED <<apiVars, monitor, late, engines>>

SpecFailover == InitFailover /\ [][NextFailover]_vars

\* ------------------------------------------------------------------------
\* Two providers whose upstreams may answer or fail, and validated requests
\* with and without a message of role 'user'
\* ------------------------------------------------------------------------
InitAdapter ==
  /\ Constructed({GG, HF})
  /\ tenants = BothTenants
  /\ upstream = [p \in ProviderNames |-> Upstream("any", 0)]
  /\ budget = Budget(AdapterRequests, AdapterRequests, AdapterRequests)
  /\ limits = Limits(AdapterTicks * requestTimeoutMs, 1)

\* a rejected promise is handled before any timer runs
SettledTick == (\A r \in Slots : req[r].pc # "unsent") /\ Tick

NextAdapter ==
  \/ \E tn \in TenantIds : RouteRequest(tn) /\ UNCHANGED <<apiVars, monitor, late, engines>>
  \/ \E tn \in TenantIds : RouteNoUser(tn) /\ UNCHANGED <<apiVars, monitor, late, engines>>
  \/ \E r \in Slots : ResolveResponse(r) /\ UNCHANGED <<apiVars, monitor, late, engines>>
  \/ \E r \in Slots : Reject(r) /\ UNCHANGED <<apiVars, monitor, late, engines>>
  \/ \E r \in Slots : Timeout(r) /\ UNCHANGED <<apiVars, monitor, late, engines>>
  \/ \E r \in Slots : RejectUnsent(r) /\ UNCHANGED <<apiVars, monitor, late, engines>>
  \/ SettledTick /\ UNCHANGED <<apiVars, monitor, late, engines>>

SpecAdapter == InitAdapter /\ [][NextAdapter]_vars

\* ------------------------------------------------------------------------
\* Tenant files whose providers.enabled names a provider more than once
\* (nothing validates the list), every makeRequest settling with a response
\* object or a rejection
\* ------------------------------------------------------------------------
RepeatTenants ==
  [t \in TenantIds |->
     IF t = "tenant-a" THEN Tenant(<<GG, HF, GG>>, "")
     ELSE Tenant(<<HF, HF>>, "performance-first")]

InitRepeat ==
  /\ Constructed({GG, HF})
  /\ tenants = RepeatTenants
  /\ upstream = [p \in ProviderNames |-> Upstream("any", 0)]
  /\ budget = Budget(RepeatRequests, RepeatRequests, RepeatRequests)
  /\ limits = Limits(RepeatTicks * requestTimeoutMs, MaxInFlight)

SpecRepeat == InitRepeat /\ [][NextFailover]_vars

\* ------------------------------------------------------------------------
\* Two providers; tenant-a lists a name that is not configured and
\* google-gemini, tenant-b lists hugging-face; requests one after another,
\* the clock runs past one cool-down
\* ------------------------------------------------------------------------
GateTenants ==
  [t \in TenantIds |->
     IF t = "tenant-a" THEN Tenant(<<Unknown, GG>>, "")
     ELSE Tenant(<<HF>>, "performance-first")]

InitGate ==
  /\ Constructed({GG, HF})
  /\ tenants = GateTenants
  /\ upstream = [p \in ProviderNames |-> Upstream("any", 0)]
  /\ budget = Budget(GateRequests, 1, GateRequests)
  /\ limits = Limits(timeout + GateTicks * requestTimeoutMs, 1)

SpecGate == InitGate /\ [][NextFailover]_vars

\* ------------------------------------------------------------------------
\* Two providers that may do anything, requests one after another: tenant-a
\* lists google-gemini twice and uses the balanced policy, tenant-b lists both
\* providers under performance-first
\* ------------------------------------------------------------------------
OrderTenants ==
  [t \in TenantIds |->
     IF t = "tenant-a" THEN Tenant(<<GG, HF, GG>>, "")
     ELSE Tenant(<<HF, GG>>, "performance-first")]

InitOrder ==
  /\ Constructed({GG, HF})
  /\ tenants = OrderTenants
  /\ upstream = [p \in ProviderNames |-> Upstream("any", 0)]
  /\ budget = Budget(OrderRequests, OrderRequests, OrderRequests)
  /\ limits = Limits(OrderTicks * requestTimeoutMs, 1)

SpecOrder == InitOrder /\ [][NextFailover]_vars

\* ------------------------------------------------------------------------
\* The HealthMonitor methods called directly: in-line outcomes and probe
\* results of one provider that answers while its first WarmCalls samples are
\* taken and is down, and no longer probed, from then on
\* ------------------------------------------------------------------------
\* latencies a call or a health check may take
HealthLatencies == {0, requestTimeoutMs}

Warm(p) == Len(healthData[p].history) < WarmCalls /\ budget["all"] > HealthUpdates - WarmCalls

DirectHealth(p, entry) ==
  /\ budget["all"] > 0
  /\ budget' = [budget EXCEPT !["all"] = @ - 1]
  /\ healthData' = [healthData EXCEPT ![p] = entry]
  /\ calls' = <<>>
  /\ lastResult' = NoResult
  /\ UNCHANGED <<now, providers, circuitBreakers, isInitialized, tenants,
                 upstream, req, limits, completed, streak>>

CallRecordSuccess(p, latency) ==
  /\ Warm(p)
  /\ DirectHealth(p, recordSuccess(healthData[p], latency))

CallRecordFailure(p) ==
  DirectHealth(p, recordFailure(healthData[p]))

CallCheckProvider(p, status, latency) ==
  /\ Warm(p)
  /\ DirectHealth(p, checkProvider(healthData[p], status, latency))

CallCheckProviderCatch(p) ==
  /\ Warm(p)
  /\ DirectHealth(p, checkProviderCatch(healthData[p]))

InitHealth ==
  /\ Constructed({GG})
  /\ tenants = NarrowTenants
  /\ upstream = [p \in ProviderNames |-> Upstream("any", 0)]
  /\ budget = Budget(0, 0, HealthUpdates)
  /\ limits = Limits(0, 1)

NextHealth ==
  \/ \E latency \in HealthLatencies :
       CallRecordSuccess(GG, latency) /\ UNCHANGED <<apiVars, monitor, late, engines>>
  \/ CallRecordFailure(GG) /\ UNCHANGED <<apiVars, monitor, late, engines>>
  \/ \E status \in {"healthy", "unhealthy"} : \E latency \in HealthLatencies :
       CallCheckProvider(GG, status, latency) /\ UNCHANGED <<apiVars, monitor, late, engines>>
  \/ CallCheckProviderCatch(GG) /\ UNCHANGED <<apiVars, monitor, late, engines>>

SpecHealth == InitHealth /\ [][NextHealth]_vars

\* ------------------------------------------------------------------------
\* selectProviders called directly on health records of three providers
\* ------------------------------------------------------------------------
\* the record of a provider after `failures` failed calls followed by
\* `successes` calls that took `latency` ms each: the history before the last
\* call, and the last call recorded
Sampled(failures, successes, latency) ==
  LET n      == failures + successes
      before == [i \in 1..(n - 1) |->
                   IF i <= failures
                   THEN [status |-> "unhealthy", latency |-> unhealthyLatency]
                   ELSE [status |-> "healthy", latency |-> latency]]
      base   == [NoHealth EXCEPT
                   !.exists = TRUE,
                   !.history = before,
                   !.consecutive_failures =
                      IF successes > 1 THEN 0
                      ELSE IF successes = 1 THEN failures ELSE failures - 1]
  IN  IF successes > 0 THEN recordSuccess(base, latency) ELSE recordFailure(base)

\* no sample yet, a full recent window with up to UptimeSteps failures and a
\* latency of up to LatencySteps * 200 ms, or a window of failures only
Snapshots ==
  {NoHealth, Sampled(recentWindow, 0, 0)}
    \cup {Sampled(k, recentWindow - k, l * initialLatency) :
            k \in 0..UptimeSteps, l \in 0..LatencySteps}

Ranked == {GG, HF, CO}

\* the candidate lists routeRequest may pass: loaded providers, none twice
CandidateLists ==
  {s \in UNION {[1..n -> Ranked] : n \in 1..Cardinality(Ranked)} :
     \A i, j \in DOMAIN s : i # j => s[i] # s[j]}

InitPolicy ==
  /\ now = 0
  /\ providers = Ranked
  /\ circuitBreakers = [p \in Ranked |-> NewBreaker]
  /\ isInitialized = TRUE
  /\ healthData \in [ProviderNames -> Snapshots]
  /\ \A p \in ProviderNames \ Ranked : healthData[p] = NoHealth
  /\ tenants = OrderTenants
  /\ upstream = [p \in ProviderNames |-> Upstream("any", 0)]
  /\ req = [r \in Slots |-> IdleReq]
  /\ budget = Budget(0, 0, 0)
  /\ limits = Limits(0, 1)
  /\ calls = <<>>
  /\ lastResult = NoResult
  /\ completed = 0
  /\ streak = [p \in ProviderNames |-> IF p \in Ranked THEN 0 ELSE -1]
  /\ usageData = [t \in TenantIds |-> NoUsage]
  /\ hits = [t \in TenantIds |-> NoHits]
  /\ lastHttp = NoHttp
  /\ served = [t \in TenantIds |-> [responses |-> 0, total_tokens |-> 0, since |-> Null]]
  /\ monitor = startMonitoring(NewMonitor)
  /\ late = {}
  /\ engines = <<>>

\* this.policyEngine.selectProviders(loadedProviders, healthData, policy),
\* called once on the records drawn
SelectProviders(availableProviders, policyName) ==
  /\ calls = <<>>
  /\ calls' = <<[op |-> "selectProviders", provider |-> "",
                 availableProviders |-> availableProviders,
                 policyName |-> policyName,
                 result |-> selectProviders(availableProviders, healthData,
                                            policyName)]>>
  /\ UNCHANGED <<now, providers, circuitBreakers, isInitialized, healthData,
                 tenants, upstream, req, budget, limits, lastResult, completed,
                 streak>>

NextPolicy ==
  \E availableProviders \in CandidateLists : \E policyName \in DOMAIN Policies :
    SelectProviders(availableProviders, policyName)
      /\ UNCHANGED <<apiVars, monitor, late, engines>>

SpecPolicy == InitPolicy /\ [][NextPolicy]_vars

\* ------------------------------------------------------------------------
\* A provider that fails its first `threshold` calls and answers from then
\* on, next to one that always answers; requests never stop arriving
\* ------------------------------------------------------------------------
RecoverTenants ==
  [t \in TenantIds |->
     IF t = "tenant-a" THEN Tenant(<<GG, HF>>, "")
     ELSE Tenant(<<GG>>, "")]

InitRecover ==
  /\ Constructed({GG, HF})
  /\ tenants = RecoverTenants
  /\ upstream = [p \in ProviderNames |->
                   IF p = GG THEN Upstream("up", threshold) ELSE Upstream("up", 0)]
  /\ budget = Budget(RecoverRequests, threshold, RecoverRequests + threshold)
  /\ limits = Limits(timeout + RecoverTicks * requestTimeoutMs, 1)

\* the cool-down of an open breaker passes while no request is in flight
IdleTick ==
  /\ \A r \in Slots : ~Awaiting(r)
  /\ \E p \in DOMAIN circuitBreakers : circuitBreakers[p].state = "open"
  /\ Tick

\* further requests of tenant tn are on their way
MoreRequests(tn) ==
  /\ budget[tn] = 0
  /\ \A r \in Slots : ~Awaiting(r)
  /\ budget' = [budget EXCEPT ![tn] = RecoverRequests,
                              !["all"] = @ + RecoverRequests]
  /\ completed' = 0
  /\ UNCHANGED <<now, providers, circuitBreakers, isInitialized, healthData,
                 tenants, upstream, req, limits, calls, lastResult, streak>>

Arrive(tn) == RouteRequest(tn) /\ UNCHANGED <<apiVars, monitor, late, engines>>
Answer == \E r \in Slots : ResolveResponse(r) /\ UNCHANGED <<apiVars, monitor, late, engines>>
Fail == \E r \in Slots : Reject(r) /\ UNCHANGED <<apiVars, monitor, late, engines>>
Pass == IdleTick /\ UNCHANGED <<apiVars, monitor, late, engines>>
Further == MoreRequests("tenant-a") /\ UNCHANGED <<apiVars, monitor, late, engines>>

NextRecover ==
  \/ \E tn \in TenantIds : Arrive(tn)
  \/ Answer
  \/ Fail
  \/ Pass
  \/ Further

\* the states in which the actions can take a step
CanArrive(tn) == budget[tn] > 0 /\ budget["all"] > 0 /\ IdleSlots # {}
CanAnswer ==
  \E r \in Slots :
    Awaiting(r) /\ MaySucceed(Current(r)) /\ Elapsed(r) <= requestTimeoutMs
CanFail ==
  \E r \in Slots :
    Awaiting(r) /\ MayFail(Current(r)) /\ Elapsed(r) <= requestTimeoutMs

\* every call ends, the cool-down passes, and the requests of tenant-a, who
\* may use both providers, keep arriving; tenant-b sends `threshold` requests.
\* Weak fairness of each action; for the actions that run the router, the
\* enabling condition is written as a state predicate: the action is taken
\* again and again unless it is disabled again and again
SpecRecover ==
  /\ InitRecover
  /\ [][NextRecover]_vars
  /\ ([]<>(~CanArrive("tenant-a")) \/ []<><<Arrive("tenant-a")>>_vars)
  /\ ([]<>(~CanAnswer) \/ []<><<Answer>>_vars)
  /\ ([]<>(~CanFail) \/ []<><<Fail>>_vars)
  /\ WF_vars(Pass)
  /\ WF_vars(Further)

\* ------------------------------------------------------------------------
\* shutdown() while requests are routed
\* ------------------------------------------------------------------------
Engine ==
  [providers |-> providers, circuitBreakers |-> circuitBreakers,
   isInitialized |-> isInitialized, monitor |-> monitor]

\* a shutdown that leaves the engine marked as initialized
shutdown_keepsInitialized(engine) ==
  [providers |-> {}, circuitBreakers |-> [p \in {} |-> NewBreaker],
   isInitialized |-> engine.isInitialized,
   monitor |-> stopMonitoring(engine.monitor)]

\* shutdown()
shutdown(engine) ==
  [providers |-> {}, circuitBreakers |-> [p \in {} |-> NewBreaker],
   isInitialized |-> FALSE,
   monitor |-> stopMonitoring(engine.monitor)]

Shutdown ==
  /\ LET engine == shutdown(Engine)
     IN  /\ providers' = engine.providers
         /\ circuitBreakers' = engine.circuitBreakers
         /\ isInitialized' = engine.isInitialized
         /\ monitor' = engine.monitor
         /\ streak' = [p \in ProviderNames |->
                         IF p \in DOMAIN engine.circuitBreakers
                         THEN streak[p] ELSE -1]
  /\ calls' = <<>>
  /\ lastResult' = NoResult
  /\ UNCHANGED <<now, healthData, tenants, upstream, req, budget, limits,
                 completed>>

\* the start-up timer of startMonitoring fires and runs checkAllProviders;
\* the runs the interval starts are the same call and leave every variable
\* as it is
InitialCheck ==
  /\ monitor.initialCheck
  /\ monitor' = [monitor EXCEPT
                   !.initialCheck = FALSE,
                   !.lastCheck = IF monitor.isMonitoring THEN "monitoring"
                                 ELSE "stopped"]
  /\ healthData' = checkAllProviders(healthData)
  /\ calls' = <<>>
  /\ lastResult' = NoResult
  /\ UNCHANGED <<now, providers, circuitBreakers, isInitialized, tenants,
                 upstream, req, budget, limits, completed, streak>>

InitShutdown ==
  /\ Constructed({GG, HF})
  /\ tenants = OrderTenants
  /\ upstream = [p \in ProviderNames |-> Upstream("any", 0)]
  /\ budget = Budget(ShutdownRequests, ShutdownRequests, ShutdownRequests)
  /\ limits = Limits(ShutdownTicks * requestTimeoutMs, 1)

NextShutdown ==
  \/ \E tn \in TenantIds : RouteRequest(tn) /\ UNCHANGED <<apiVars, monitor, late, engines>>
  \/ \E r \in Slots : ResolveResponse(r) /\ UNCHANGED <<apiVars, monitor, late, engines>>
  \/ \E r \in Slots : Reject(r) /\ UNCHANGED <<apiVars, monitor, late, engines>>
  \/ \E r \in Slots : Timeout(r) /\ UNCHANGED <<apiVars, monitor, late, engines>>
  \/ Tick /\ UNCHANGED <<apiVars, monitor, late, engines>>
  \/ Shutdown /\ UNCHANGED <<apiVars, late, engines>>
  \/ InitialCheck /\ UNCHANGED <<apiVars, late, engines>>

SpecShutdown == InitShutdown /\ [][NextShutdown]_vars

\* ------------------------------------------------------------------------
\* The process: the engine of the chat route, its monitor, and the engines
\* that GET /health/detailed builds
\* ------------------------------------------------------------------------
\* startMonitoring() called on the monitor of the chat route's engine
StartMonitoring ==
  /\ monitor' = startMonitoring(monitor)
  /\ calls' = <<>>
  /\ lastResult' = NoResult
  /\ UNCHANGED <<now, providers, circuitBreakers, isInitialized, healthData,
                 tenants, upstream, req, budget, limits, completed, streak>>

\* GET /health/detailed: new RouterEngine(), whose constructor starts the
\* monitor of the new engine; nothing stops it
HealthDetailed ==
  /\ Len(engines) < DetailedRequests
  /\ engines' = Append(engines, startMonitoring(NewMonitor))
  /\ calls' = <<>>
  /\ lastResult' = NoResult
  /\ UNCHANGED <<now, providers, circuitBreakers, isInitialized, healthData,
                 tenants, upstream, req, budget, limits, completed, streak>>

NextProcess ==
  \/ \E tn \in TenantIds : RouteRequest(tn) /\ UNCHANGED <<apiVars, monitor, late, engines>>
  \/ \E r \in Slots : ResolveResponse(r) /\ UNCHANGED <<apiVars, monitor, late, engines>>
  \/ \E r \in Slots : Reject(r) /\ UNCHANGED <<apiVars, monitor, late, engines>>
  \/ Shutdown /\ UNCHANGED <<apiVars, late, engines>>
  \/ InitialCheck /\ UNCHANGED <<apiVars, late, engines>>
  \/ StartMonitoring /\ UNCHANGED <<apiVars, late, engines>>
  \/ HealthDetailed /\ UNCHANGED <<apiVars, monitor, late>>

SpecProcess == InitShutdown /\ [][NextProcess]_vars

\* ------------------------------------------------------------------------
\* The deadline of executeWithTimeout and what the provider delivers after it
\* ------------------------------------------------------------------------
\* the promise executeWithTimeout returns
Pending == [state |-> "pending", value |-> ""]

\* a promise that takes the value of the last resolve call
resolve_last(promise, value) == [state |-> "fulfilled", value |-> value]

\* resolve(response): settles a pending promise, does nothing to a settled one
resolve(promise, value) ==
  IF promise.state = "pending"
  THEN [state |-> "fulfilled", value |-> value] ELSE promise

\* reject(error): settles a pending promise, does nothing to a settled one
reject(promise, reason) ==
  IF promise.state = "pending"
  THEN [state |-> "rejected", value |-> reason] ELSE promise

\* the timer rejects the promise while makeRequest is still running
TimeoutPending(r) ==
  /\ Timeout(r)
  /\ late' = late \cup {[provider |-> Current(r), startTime |-> req[r].startTime,
                          promise |-> reject(Pending, "timeout")]}

\* makeRequest of a call that timed out settles: the then or the catch
\* callback of executeWithTimeout runs, and the loop iteration that awaited
\* the promise runs only if the promise changes
LateSettle(x, outcome) ==
  /\ x \in late
  /\ IF outcome = "response" THEN MaySucceed(x.provider) ELSE MayFail(x.provider)
  /\ late' = late \ {x}
  /\ LET settled == IF outcome = "response"
                    THEN resolve(x.promise, "response")
                    ELSE reject(x.promise, "rejected")
     IN  IF settled = x.promise
           THEN UNCHANGED <<circuitBreakers, healthData, streak, calls>>
         ELSE IF settled.state = "fulfilled"
           THEN Store(RecordOutcomeSuccess(St(<<>>, <<>>), x.provider,
                                           now - x.startTime, now))
         ELSE Store(CatchFailure(St(<<>>, <<>>), x.provider, settled.value,
                                 now - x.startTime, now))
  /\ UNCHANGED <<now, providers, isInitialized, tenants, upstream, req, budget,
                 limits, lastResult, completed>>

InitDeadline ==
  /\ Constructed({GG, HF})
  /\ tenants = OrderTenants
  /\ upstream = [p \in ProviderNames |-> Upstream("any", 0)]
  /\ budget = Budget(DeadlineRequests, DeadlineRequests, DeadlineRequests)
  /\ limits = Limits(DeadlineTicks * requestTimeoutMs, 1)

NextDeadline ==
  \/ \E tn \in TenantIds : RouteRequest(tn) /\ UNCHANGED <<apiVars, monitor, late, engines>>
  \/ \E r \in Slots : ResolveResponse(r) /\ UNCHANGED <<apiVars, monitor, late, engines>>
  \/ \E r \in Slots : ResolveNull(r) /\ UNCHANGED <<apiVars, monitor, late, engines>>
  \/ \E r \in Slots : Reject(r) /\ UNCHANGED <<apiVars, monitor, late, engines>>
  \/ \E r \in Slots : TimeoutPending(r) /\ UNCHANGED <<apiVars, monitor, engines>>
  \/ \E x \in late : \E outcome \in {"response", "error"} :
       LateSettle(x, outcome) /\ UNCHANGED <<apiVars, monitor, engines>>
  \/ Tick /\ UNCHANGED <<apiVars, monitor, late, engines>>

SpecDeadline == InitDeadline /\ [][NextDeadline]_vars

\* ------------------------------------------------------------------------
\* The chat route: authentication, rate limiter, body validation, quota
\* check, routeRequest, trackUsage
\* ------------------------------------------------------------------------
routerVars == <<now, providers, circuitBreakers, isInitialized, healthData,
                tenants, upstream, req, limits, calls, lastResult, completed,
                streak>>

\* a tenant file with quotas
ApiTenant(enabled, policy, quotas) ==
  [listed |-> TRUE, enabled |-> enabled, routing_policy |-> policy,
   quotas |-> quotas]

\* authenticateAPIKey: the tenant whose api_keys hold the bearer key, "" when
\* the header is missing or no tenant has the key; every tenant's key is its id
authenticateAPIKey(key) == IF key \in TenantIds THEN key ELSE ""

\* the chain without the quota check of the handler
Screen_noQuota(tn, hit, validBody) ==
  IF tn = "" THEN "authentication_error"
  ELSE IF hit.count > maxRequests(tenants[tn]) THEN "rate_limit_error"
  ELSE IF ~validBody THEN "validation_error"
  ELSE "route"

\* the middleware chain of POST /completions up to the call of routeRequest:
\* the error type it answers with, or "route"
Screen(tn, hit, validBody) ==
  IF tn = "" THEN "authentication_error"
  ELSE IF hit.count > maxRequests(tenants[tn]) THEN "rate_limit_error"
  ELSE IF ~validBody THEN "validation_error"
  ELSE IF ~checkQuota(tenants[tn], usageData[tn], "daily_requests").allowed
    THEN "quota_exceeded"
  ELSE "route"

\* the answer of a request turned away before the router
Refusal(type, tn) ==
  [status |-> IF type = "authentication_error" THEN 401
              ELSE IF type = "validation_error" THEN 400 ELSE 429,
   type |-> type, tenant |-> tn, total_tokens |-> 0,
   attempts |-> <<>>, providers_attempted |-> 0, choices |-> FALSE]

\* error.message of a rejected routeRequest
MessageOf(result) ==
  IF result.kind = "NotInitialized" THEN "RouterEngine not initialized"
  ELSE IF result.kind = "NoProvidersAvailable" THEN "No providers available"
  ELSE IF result.kind = "AllProvidersFailed" THEN "All providers failed"
  ELSE ""

\* error.attempts || [] and error.providersAttempted || 0: only the error of
\* executeWithFailover carries the two properties
DetailsOf(result) ==
  IF result.kind = "AllProvidersFailed"
  THEN [attempts |-> result.attempts, providers_attempted |-> Len(result.ordered)]
  ELSE [attempts |-> <<>>, providers_attempted |-> 0]

\* a catch block that answers every router failure with 500 api_error
HttpOf_apiError(result, tn) ==
  IF result.kind \in {"none", "response"} THEN NoHttp
  ELSE [status |-> 500, type |-> "api_error", tenant |-> tn, total_tokens |-> 0,
        attempts |-> DetailsOf(result).attempts,
        providers_attempted |-> DetailsOf(result).providers_attempted,
        choices |-> FALSE]

\* the catch block of the route: the answer for a rejected routeRequest
HttpOf(result, tn) ==
  IF result.kind \in {"none", "response"} THEN NoHttp
  ELSE LET message == MessageOf(result)
       IN  [status |-> IF message = "No providers available" THEN 503
                       ELSE IF message = "All providers failed" THEN 502
                       ELSE 500,
            type |-> IF message = "No providers available"
                       THEN "service_unavailable"
                     ELSE IF message = "All providers failed" THEN "bad_gateway"
                     ELSE "api_error",
            tenant |-> tn, total_tokens |-> 0,
            attempts |-> DetailsOf(result).attempts,
            providers_attempted |-> DetailsOf(result).providers_attempted,
            choices |-> FALSE]

\* a chat request arrives with bearer key `key` and a body that passes
\* validation or not; the rate limiter counts every authenticated request
ChatCompletion(key, validBody) ==
  /\ budget["all"] > 0
  /\ LET tn      == authenticateAPIKey(key)
         hit     == IF tn = "" THEN NoHits
                    ELSE increment(hits[keyGenerator(tn)], now)
         verdict == Screen(tn, hit, validBody)
     IN  /\ hits' = IF tn = "" THEN hits
                    ELSE [hits EXCEPT ![keyGenerator(tn)] = hit]
         /\ UNCHANGED <<usageData, served>>
         /\ IF verdict = "route"
              THEN /\ RouteRequest(tn)
                   /\ lastHttp' = HttpOf(lastResult', tn)
              ELSE /\ budget' = [budget EXCEPT !["all"] = @ - 1]
                   /\ UNCHANGED routerVars
                   /\ lastHttp' = Refusal(verdict, tn)

\* routeRequest returns a response whose usage.total_tokens is total_tokens
\* (0 also stands for a response without usage): trackUsage, res.json
Respond(r, total_tokens) ==
  /\ ResolveResponse(r)
  /\ usageData' = [usageData EXCEPT ![req[r].tenant] =
         trackUsage(@, total_tokens, total_tokens * costPerToken, now)]
  /\ served' = [served EXCEPT ![req[r].tenant] =
         [responses |-> @.responses + 1,
          total_tokens |-> @.total_tokens + total_tokens,
          since |-> IF @.responses = 0 THEN now ELSE @.since]]
  /\ lastHttp' = [status |-> 200, type |-> "chat.completion",
                  tenant |-> req[r].tenant, total_tokens |-> total_tokens,
                  attempts |-> <<>>, providers_attempted |-> 0,
                  choices |-> TRUE]
  /\ UNCHANGED hits

\* an attempt fails: the next provider is called or routeRequest rejects
RejectApi(r) ==
  /\ Reject(r)
  /\ lastHttp' = HttpOf(lastResult', req[r].tenant)
  /\ UNCHANGED <<usageData, hits, served>>

\* a day passes with no request in flight
Sleep ==
  /\ \A r \in Slots : ~Awaiting(r)
  /\ now < ApiDays * dayMs
  /\ now' = now + dayMs
  /\ calls' = <<>>
  /\ lastResult' = NoResult
  /\ lastHttp' = NoHttp
  /\ UNCHANGED <<providers, circuitBreakers, isInitialized, healthData, tenants,
                 upstream, req, budget, limits, completed, streak, usageData,
                 hits, served>>

\* bearer keys a request may carry: a tenant's key or one no tenant has
Keys == TenantIds \cup {"unknown-key"}

\* tenant-a has a daily quota and a rate limit, tenant-b has no quotas
ApiTenants(daily, rate) ==
  [t \in TenantIds |->
     IF t = "tenant-a" THEN ApiTenant(<<GG>>, "", Quotas(daily, 0, rate))
     ELSE ApiTenant(<<GG>>, "", NoQuotas)]

InitApi ==
  /\ Constructed({GG})
  /\ \E daily \in 0..MaxQuota : \E rate \in 0..MaxQuota :
       tenants = ApiTenants(daily, rate)
  /\ upstream = [p \in ProviderNames |-> Upstream("any", 0)]
  /\ budget = Budget(ApiRequests, ApiRequests, ApiRequests)
  /\ limits = Limits(0, 1)

\* the same service with two requests in flight at once
InitOverlap ==
  /\ Constructed({GG})
  /\ tenants = ApiTenants(OverlapRequests, 0)
  /\ upstream = [p \in ProviderNames |-> Upstream("any", 0)]
  /\ budget = Budget(OverlapRequests, OverlapRequests, OverlapRequests)
  /\ limits = Limits(0, 2)

\* providers answer at once: time passes between requests only
NextApi ==
  \/ \E key \in Keys : \E validBody \in BOOLEAN :
       ChatCompletion(key, validBody) /\ UNCHANGED <<monitor, late, engines>>
  \/ \E r \in Slots : \E total_tokens \in 0..MaxTokens :
       Respond(r, total_tokens) /\ UNCHANGED <<monitor, late, engines>>
  \/ \E r \in Slots : RejectApi(r) /\ UNCHANGED <<monitor, late, engines>>
  \/ Sleep /\ UNCHANGED <<monitor, late, engines>>

SpecApi == InitApi /\ [][NextApi]_vars

SpecOverlap == InitOverlap /\ [][NextApi]_vars

\* two requests of tenant-a in flight at once, more requests than its daily quota
InitRace ==
  /\ Constructed({GG})
  /\ \E daily \in 1..RaceQuota : tenants = ApiTenants(daily, 0)
  /\ upstream = [p \in ProviderNames |-> Upstream("any", 0)]
  /\ budget = Budget(OverlapRequests, 0, OverlapRequests)
  /\ limits = Limits(0, 2)

SpecRace == InitRace /\ [][NextApi]_vars

\* ------------------------------------------------------------------------
\* The chat route when routing fails: tenant-a may use google-gemini and
\* hugging-face, tenant-b lists a provider that is not configured, and the
\* engine may be shut down
\* ------------------------------------------------------------------------
ErrorTenants ==
  [t \in TenantIds |->
     IF t = "tenant-a" THEN ApiTenant(<<GG, HF>>, "", NoQuotas)
     ELSE ApiTenant(<<Unknown>>, "", NoQuotas)]

InitErrors ==
  /\ Constructed({GG, HF})
  /\ tenants = ErrorTenants
  /\ upstream = [p \in ProviderNames |-> Upstream("any", 0)]
  /\ budget = Budget(ErrorRequests, ErrorRequests, ErrorRequests)
  /\ limits = Limits(0, 1)

NextErrors ==
  \/ \E key \in Keys : \E validBody \in BOOLEAN :
       ChatCompletion(key, validBody) /\ UNCHANGED <<monitor, late, engines>>
  \/ \E r \in Slots : \E total_tokens \in 0..MaxTokens :
       Respond(r, total_tokens) /\ UNCHANGED <<monitor, late, engines>>
  \/ \E r \in Slots : RejectApi(r) /\ UNCHANGED <<monitor, late, engines>>
  \/ Shutdown /\ UNCHANGED <<apiVars, late, engines>>

SpecErrors == InitErrors /\ [][NextErrors]_vars

\* ------------------------------------------------------------------------
\* Properties
\* ------------------------------------------------------------------------
IsCall(c, op) == c.op = op /\ c.provider \in DOMAIN circuitBreakers

\* C1: a breaker that was closed with failureCount 0 and has since seen k
\* consecutive recordCircuitBreakerFailure calls and no success is still closed
\* when k < threshold; when k = threshold it has left closed, and as long as
\* now < nextAttemptTime it is open and isProviderAvailable returns false
C1_BreakerOpensAtThreshold ==
  /\ \A p \in DOMAIN circuitBreakers :
       LET b == circuitBreakers[p]
       IN  /\ (streak[p] >= 0 /\ streak[p] < threshold)
                => (b.state = "closed" /\ b.failureCount = streak[p])
           /\ streak[p] = threshold
                => /\ b.state \in {"open", "half-open"}
                   /\ now < b.nextAttemptTime
                        => (b.state = "open" /\ ~isProviderAvailable(b, now).result)
  /\ \A i \in DOMAIN calls :
       (/\ IsCall(calls[i], "isProviderAvailable")
        /\ calls[i].pre.state = "open"
        /\ calls[i].at < calls[i].pre.nextAttemptTime)
         => (~calls[i].result /\ calls[i].post = calls[i].pre)

\* the fifth consecutive failure has opened the breaker and a later
\* isProviderAvailable call inside the cool-down has returned false
C1_Witness ==
  /\ streak[GG] = threshold
  /\ circuitBreakers[GG].state = "open"
  /\ circuitBreakers[GG].lastFailureTime < now
  /\ now < circuitBreakers[GG].nextAttemptTime
  /\ calls # <<>>
  /\ IsCall(calls[1], "isProviderAvailable")
  /\ calls[1].provider = GG
  /\ ~calls[1].result

\* C2: an isProviderAvailable call that finds the breaker open with
\* now >= nextAttemptTime returns true and leaves it half-open; a
\* recordCircuitBreakerSuccess call that finds it half-open leaves it closed
\* with failureCount 0
C2_BreakerRecovers ==
  \A i \in DOMAIN calls :
    /\ (/\ IsCall(calls[i], "isProviderAvailable")
        /\ calls[i].pre.state = "open"
        /\ calls[i].at >= calls[i].pre.nextAttemptTime)
         => (calls[i].result /\ calls[i].post.state = "half-open")
    /\ (/\ IsCall(calls[i], "recordCircuitBreakerSuccess")
        /\ calls[i].pre.state = "half-open")
         => (calls[i].post.state = "closed" /\ calls[i].post.failureCount = 0)

\* a success recorded on a half-open breaker that still held the failures
\* which opened it has just closed it
C2_Witness ==
  /\ calls # <<>>
  /\ IsCall(calls[1], "recordCircuitBreakerSuccess")
  /\ calls[1].provider = GG
  /\ calls[1].pre.state = "half-open"
  /\ calls[1].pre.failureCount >= threshold
  /\ calls[1].at >= calls[1].pre.nextAttemptTime
  /\ circuitBreakers[GG].state = "closed"
  /\ circuitBreakers[GG].failureCount = 0

\* C3: every recordCircuitBreakerFailure call that finds the breaker half-open
\* leaves it open with nextAttemptTime = now + cool-down
C3_HalfOpenFailureReopens ==
  \A i \in DOMAIN calls :
    (IsCall(calls[i], "recordCircuitBreakerFailure")
       /\ calls[i].pre.state = "half-open")
      => /\ calls[i].post.state = "open"
         /\ calls[i].post.nextAttemptTime = calls[i].at + timeout

\* C5: no makeRequest is started on a provider whose breaker is open with
\* now < nextAttemptTime
C5_OpenBreakerBlocksCalls ==
  \A i \in DOMAIN calls :
    IsCall(calls[i], "makeRequest")
      => ~(calls[i].pre.state = "open"
             /\ calls[i].at < calls[i].pre.nextAttemptTime)

\* C6: while a breaker is half-open at most one call admitted in that state is
\* in flight on its provider
C6_SingleProbe ==
  \A p \in DOMAIN circuitBreakers :
    circuitBreakers[p].state = "half-open"
      => Cardinality({r \in Slots :
                        /\ req[r].pc = "awaiting"
                        /\ req[r].ordered[req[r].idx] = p
                        /\ req[r].admitted = "half-open"}) <= 1

\* C7: an open breaker has nextAttemptTime set and later than lastFailureTime
\* (a lastFailureTime of null compares as 0, as in JavaScript)
C7_OpenHasLaterAttemptTime ==
  \A p \in DOMAIN circuitBreakers :
    circuitBreakers[p].state = "open"
      => /\ circuitBreakers[p].nextAttemptTime # Null
         /\ circuitBreakers[p].nextAttemptTime >
              (IF circuitBreakers[p].lastFailureTime = Null THEN 0
               ELSE circuitBreakers[p].lastFailureTime)

\* C8: a call that takes failureCount from a positive value to 0 leaves the
\* breaker closed
C8_ResetOnlyWhenClosed ==
  \A i \in DOMAIN calls :
    (/\ calls[i].provider \in DOMAIN circuitBreakers
     /\ calls[i].pre.failureCount > 0
     /\ calls[i].post.failureCount = 0)
      => calls[i].post.state = "closed"

\* C9: every loop iteration of executeWithFailover that has ended invoked
\* exactly one of recordCircuitBreakerSuccess and recordCircuitBreakerFailure
C9_OneBreakerReportPerAttempt ==
  /\ \A r \in Slots : \A i \in DOMAIN req[r].reports :
       req[r].reports[i].success + req[r].reports[i].failure = 1
  /\ \A i \in DOMAIN lastResult.reports :
       lastResult.reports[i].success + lastResult.reports[i].failure = 1

NoRepeat(attempts) ==
  \A i, j \in DOMAIN attempts :
    attempts[i].provider = attempts[j].provider => i = j

\* C10: the attempts list of a routeRequest names each provider at most once
C10_NoProviderTwice ==
  /\ \A r \in Slots : NoRepeat(req[r].attempts)
  /\ NoRepeat(lastResult.attempts)

ProvidersOf(attempts) == [i \in DOMAIN attempts |-> attempts[i].provider]

IsPrefix(s, t) == Len(s) <= Len(t) /\ s = SubSeq(t, 1, Len(s))

\* C11: the attempts of a routeRequest follow the ordered list: while it runs
\* every entry is 'failed' and the entries name the providers before the one
\* being called; when it returns a response the attempts name a prefix of the
\* ordered list, every entry but the last is 'failed', the last is 'success',
\* and primary_provider is the last entry's provider
C11_AttemptsFollowOrder ==
  /\ \A r \in Slots :
       req[r].pc = "awaiting"
         => /\ ProvidersOf(req[r].attempts)
                 = SubSeq(req[r].ordered, 1, req[r].idx - 1)
            /\ \A i \in DOMAIN req[r].attempts :
                 req[r].attempts[i].status = "failed"
  /\ lastResult.kind = "response"
       => LET a == lastResult.attempts
          IN  /\ a # <<>>
              /\ IsPrefix(ProvidersOf(a), lastResult.ordered)
              /\ \A i \in 1..(Len(a) - 1) : a[i].status = "failed"
              /\ a[Len(a)].status = "success"
              /\ lastResult.primary_provider = a[Len(a)].provider

\* C12: a routeRequest that ends with 'All providers failed' carries one
\* 'failed' entry per ordered provider, in order, and nothing else; lastError
\* is the last entry's error; and every attempt recorded one breaker failure
\* and no breaker success, so each failureCount grew by one per attempt
C12_AllFailedCarriesAttempts ==
  lastResult.kind = "AllProvidersFailed"
    => LET a == lastResult.attempts
       IN  /\ ProvidersOf(a) = lastResult.ordered
           /\ \A i \in DOMAIN a : a[i].status = "failed"
           /\ a # <<>> => lastResult.lastError = a[Len(a)].error
           /\ Len(lastResult.reports) = Len(a)
           /\ \A i \in DOMAIN lastResult.reports :
                /\ lastResult.reports[i].failure = 1
                /\ lastResult.reports[i].success = 0

\* a routeRequest call of tenant tn starts in this step
Routed(tn) == budget'[tn] = budget[tn] - 1

\* name is loaded and its breaker lets a call through at the current time
Admissible(name) ==
  /\ name \in providers
  /\ ~(circuitBreakers[name].state = "open"
         /\ now < circuitBreakers[name].nextAttemptTime)

\* C13: a routeRequest call rejects with 'No providers available' exactly
\* when no name of the tenant's enabled list is loaded and available; such a
\* call leaves health data and breakers as they were, starts no makeRequest,
\* records no breaker outcome and does not reach the policy engine
C13_NoCandidatesNoEffect ==
  [][\A tn \in TenantIds :
       Routed(tn)
         => LET none == \A i \in DOMAIN EnabledOf(tenants[tn]) :
                          ~Admissible(EnabledOf(tenants[tn])[i])
            IN  /\ none <=> lastResult'.kind = "NoProvidersAvailable"
                /\ none => /\ healthData' = healthData
                           /\ circuitBreakers' = circuitBreakers
                           /\ req' = req
                           /\ lastResult'.ordered = <<>>
                           /\ lastResult'.attempts = <<>>
                           /\ \A i \in DOMAIN calls' :
                                calls'[i].op = "isProviderAvailable"]_vars

\* a request of tenant-a has been turned away while google-gemini's breaker
\* was open inside its cool-down and the other listed name was not loaded
C13_Witness ==
  /\ lastResult.kind = "NoProvidersAvailable"
  /\ lastResult.tenant = "tenant-a"
  /\ circuitBreakers[GG].state = "open"
  /\ now > 0
  /\ now < circuitBreakers[GG].nextAttemptTime
  /\ healthData[GG].exists
  /\ ~healthData[Unknown].exists

\* C14: every provider a routeRequest is calling is loaded and is named in
\* the enabled list of the tenant the request belongs to (the list routeRequest
\* reads: providers.enabled, or google-gemini alone when the tenant has none)
C14_OnlyAllowedLoadedProviders ==
  /\ \A r \in Slots :
       req[r].pc = "awaiting"
         => /\ Current(r) \in providers
            /\ Current(r) \in Range(EnabledOf(tenants[req[r].tenant]))
            /\ Range(req[r].ordered) \subseteq
                 Range(EnabledOf(tenants[req[r].tenant])) \cap providers
  /\ \A i \in DOMAIN lastResult.attempts :
       lastResult.attempts[i].provider \in
         Range(EnabledOf(tenants[lastResult.tenant])) \cap providers

\* tenant-a, allowed google-gemini only among the loaded providers, is being
\* served by it after hugging-face has answered tenant-b and google-gemini
\* has failed before, so that no candidate passes the uptime floor
C14_Witness ==
  /\ req[1].pc = "awaiting"
  /\ req[1].tenant = "tenant-a"
  /\ Current(1) = GG
  /\ healthData[HF].exists
  /\ healthData[GG].exists
  /\ healthData[GG].uptime.n = 0

\* the error types of a request turned away before the router
Refusals == {"authentication_error", "rate_limit_error", "validation_error",
             "quota_exceeded"}

\* a chat request arrived in this step
Arrived == budget'["all"] = budget["all"] - 1

\* C15: a request that fails authentication, rate limiting, validation or the
\* daily quota check is answered without routeRequest: a routed request had
\* quota left and room in its rate window and is not answered with one of the
\* four refusals, and a refused request starts no attempt and changes no
\* breaker, health history or usage counter.
C15_RefusedBeforeRouter ==
  [][ /\ \A tn \in TenantIds : Routed(tn) =>
           /\ checkQuota(tenants[tn], usageData[tn], "daily_requests").allowed
           /\ increment(hits[tn], now).count <= maxRequests(tenants[tn])
           /\ lastHttp'.type \notin Refusals
      /\ (Arrived /\ lastHttp'.type \in Refusals) =>
           /\ \A tn \in TenantIds : ~Routed(tn)
           /\ UNCHANGED <<circuitBreakers, healthData, usageData, req, calls,
                          lastResult>> ]_vars

C15_Witness ==
  /\ lastHttp.type = "quota_exceeded"
  /\ lastHttp.tenant = "tenant-a"
  /\ usageData["tenant-a"].daily_requests = 1
  /\ \A r \in Slots : ~Awaiting(r)

\* the tenant's file sets a daily_requests quota and its counter has reached it
AtDailyLimit(tn) ==
  /\ tenants[tn].quotas.present
  /\ usageData[tn].daily_requests = tenants[tn].quotas.daily_requests

\* C16: once a tenant's usage.daily_requests equals its daily_requests quota L,
\* its next request is not routed: unless an earlier middleware refuses it, it
\* is answered 429 'quota_exceeded', and usage.daily_requests stays L.
C16_AtLimitRefused ==
  [][ \A tn \in TenantIds : AtDailyLimit(tn) =>
        /\ ~Routed(tn)
        /\ usageData'[tn].daily_requests = usageData[tn].daily_requests
        /\ (Arrived /\ lastHttp'.tenant = tn) =>
              /\ lastHttp'.type \in Refusals
              /\ lastHttp'.type \notin {"rate_limit_error", "validation_error"}
                    => lastHttp'.status = 429 /\ lastHttp'.type = "quota_exceeded"
    ]_vars

\* more than 24 hours have passed since the tenant's last daily reset
DayPassed(tn) ==
  /\ usageData[tn].exists
  /\ usageData[tn].last_reset < now - dayMs

\* C17: the daily reset is applied when the quota is read: a tenant whose
\* daily counter was reset more than 24 hours ago is allowed by
\* checkQuota('daily_requests') again, whatever the counter had reached and
\* even when no request was tracked in between.
C17_ResetAppliedOnRead ==
  \A tn \in TenantIds : DayPassed(tn) =>
     checkQuota(tenants[tn], usageData[tn], "daily_requests").allowed

\* this step is a request carrying tn's key arriving, or tn's request in
\* flight moving on
StepOf(tn) ==
  \/ Arrived /\ (Routed(tn) \/ lastHttp'.tenant = tn)
  \/ \E r \in Slots : Awaiting(r) /\ req[r].tenant = tn /\ req'[r] # req[r]

\* C18: tenants are isolated: a step of a request authenticated as tenant B
\* leaves the usage counters, the checkQuota results and the rate-limit
\* window counter of every other tenant A unchanged.
C18_TenantsIsolated ==
  [][ \A A \in TenantIds : \A B \in TenantIds \ {A} : StepOf(B) =>
        /\ usageData'[A] = usageData[A]
        /\ hits'[keyGenerator(A)] = hits[keyGenerator(A)]
        /\ \A quotaType \in {"daily_requests", "monthly_requests"} :
             checkQuota(tenants'[A], usageData'[A], quotaType)
               = checkQuota(tenants[A], usageData[A], quotaType) ]_vars

C18_Witness ==
  /\ lastHttp.tenant = "tenant-b"
  /\ lastHttp.status = 200
  /\ usageData["tenant-b"].daily_requests = 1
  /\ usageData["tenant-a"].daily_requests = 1
  /\ hits["tenant-a"].count = 1

\* every response returned to the tenant so far was returned within 24 hours
\* of the first one
WithinOneDay(tn) ==
  served[tn].responses > 0 => now - served[tn].since <= dayMs

\* C19: whatever the interleaving of a tenant's chat requests, its usage
\* total_tokens is the sum of usage.total_tokens over the responses returned
\* to it, and while they all fall within one day its daily_requests is the
\* number of those responses.
C19_UsageMatchesResponses ==
  \A tn \in TenantIds :
    /\ usageData[tn].total_tokens = served[tn].total_tokens
    /\ WithinOneDay(tn) => usageData[tn].daily_requests = served[tn].responses

C19_Witness ==
  /\ served["tenant-a"].responses = 2
  /\ served["tenant-a"].total_tokens = 2
  /\ usageData["tenant-a"].daily_requests = 2
  /\ \E r \in Slots : Awaiting(r) /\ req[r].tenant = "tenant-a"

\* the rate limit of the tenant's file: quotas.rate_limit_per_minute, 100
\* when the file has no quotas
RateLimitOf(tn) ==
  IF tenants[tn].quotas.present THEN tenants[tn].quotas.rate_limit_per_minute
  ELSE defaultRateLimit

\* C20: within one rate-limit window at most RateLimitOf(tn) requests of a
\* tenant pass the limiter: a request that is counted beyond the limit in the
\* current window is answered 429 'rate_limit_error' and reaches neither the
\* quota check nor the router.
C20_WindowLimit ==
  [][ \A tn \in TenantIds :
        (increment(hits[keyGenerator(tn)], now).count > RateLimitOf(tn)) =>
          /\ ~Routed(tn)
          /\ (Arrived /\ lastHttp'.tenant = tn) =>
                lastHttp'.status = 429 /\ lastHttp'.type = "rate_limit_error" ]_vars

\* this step updated the health entry of p; the sample it pushed
Updated(p) == healthData'[p] # healthData[p]
Pushed(p) == healthData'[p].history[Len(healthData'[p].history)]

\* C23: after any sequence of health updates a provider's history holds at
\* most 100 samples, the most recent ones in arrival order: an update appends
\* its sample to the history and, once 100 are held, drops the oldest.
C23_HistoryRingBuffer ==
  [][ \A p \in ProviderNames : Updated(p) =>
        LET h  == healthData[p].history
            h2 == healthData'[p].history
        IN  /\ Len(h2) >= 1
            /\ Len(h2) <= historyCap
            /\ SubSeq(h2, 1, Len(h2) - 1) =
                 IF Len(h) >= historyCap
                   THEN SubSeq(h, Len(h) - historyCap + 2, Len(h))
                 ELSE h ]_vars

C23_Witness ==
  /\ budget["all"] = 0
  /\ Len(healthData[GG].history) = historyCap
  /\ healthData[GG].history[1].status = "healthy"
  /\ healthData[GG].history[historyCap].status = "unhealthy"

\* the positions of the last min(20, length) samples of a history
RecentOf(h) == {i \in DOMAIN h : i > Len(h) - recentWindow}
HealthyIn(h, idx) == {i \in idx : h[i].status = "healthy"}

\* C24: after every health update of a provider its uptime is the number of
\* healthy samples among its last min(20, history length) samples divided by
\* the number of those samples, and lies in [0, 1].
C24_UptimeOfRecent ==
  \A p \in ProviderNames : healthData[p].exists =>
    LET h == healthData[p].history
        u == healthData[p].uptime
    IN  /\ u.n * Cardinality(RecentOf(h))
             = Cardinality(HealthyIn(h, RecentOf(h))) * u.d
        /\ u.n >= 0 /\ u.d > 0 /\ u.n <= u.d

C24_Witness ==
  /\ Len(healthData[GG].history) = recentWindow + 2
  /\ healthData[GG].history[1].status = "healthy"
  /\ healthData[GG].uptime = [n |-> 1, d |-> recentWindow]

\* C28: after every health update avg_latency is the mean latency of the
\* healthy samples among the last 20 samples, and the 200 ms fallback when
\* those samples hold no healthy one.
C28_AvgLatencyOfRecent ==
  \A p \in ProviderNames : healthData[p].exists =>
    LET h  == healthData[p].history
        ok == HealthyIn(h, RecentOf(h))
        a  == healthData[p].avg_latency
        RECURSIVE Sum(_)
        Sum(S) == IF S = {} THEN 0
                  ELSE LET i == CHOOSE i \in S : TRUE
                       IN  h[i].latency + Sum(S \ {i})
    IN  IF ok = {} THEN a.n = initialLatency * a.d
        ELSE a.n * Cardinality(ok) = Sum(ok) * a.d

\* C29: consecutive_failures is the number of unhealthy samples recorded since
\* the provider's last healthy sample: a healthy sample sets it to 0, any
\* other sample adds one to it.
C29_ConsecutiveFailuresCount ==
  [][ \A p \in ProviderNames : Updated(p) =>
        healthData'[p].consecutive_failures =
          IF Pushed(p).status = "healthy" THEN 0
          ELSE healthData[p].consecutive_failures + 1 ]_vars

C29_Witness ==
  /\ Len(healthData[GG].history) = 3
  /\ healthData[GG].history[1].status = "healthy"
  /\ healthData[GG].history[2].latency = 0
  /\ healthData[GG].consecutive_failures = 2

\* C30: a healthy sample recorded for a provider whose consecutive_failures
\* was greater than 0 emits a recovery log event, and an update that brings
\* consecutive_failures to 3 emits a warning.
C30_RecoveryAndWarningLogged ==
  [][ \A p \in ProviderNames : Updated(p) =>
        /\ (Pushed(p).status = "healthy"
              /\ healthData[p].consecutive_failures > 0)
             => healthData'[p].log = "info"
        /\ healthData'[p].consecutive_failures = 3
             => healthData'[p].log = "warn" ]_vars

\* the candidates routeRequest hands to selectProviders for a request of tn
\* arriving now, and the list selectProviders returned in this step
CandidatesOf(tn) ==
  FilterCandidates(St(<<>>, <<>>), EnabledOf(tenants[tn]), now, <<>>).loadedProviders
Chosen == IF lastResult'.kind = "none" THEN req'[FreeSlot].ordered
          ELSE lastResult'.ordered

\* candidate p has no health entry or an uptime of at least the floor of
\* tn's policy
MeetsFloor(tn, p) ==
  \/ ~healthData[p].exists
  \/ RatLeq(PolicyFor(PolicyOf(tenants[tn])).min_uptime, healthData[p].uptime)

Occurrences(s, x) == Cardinality({i \in DOMAIN s : s[i] = x})

\* C25: selectProviders drops the candidates whose uptime is below the
\* policy's min_uptime when at least one candidate meets it and returns all
\* candidates, as given, when none does; for a non-empty candidate list its
\* result is not empty, names no provider outside the list and names none
\* more often than the list does.
C25_FloorFailsOpen ==
  [][ \A tn \in TenantIds :
        (Routed(tn) /\ isInitialized /\ CandidatesOf(tn) # <<>>) =>
          LET cands == CandidatesOf(tn)
              good  == {p \in Range(cands) : MeetsFloor(tn, p)}
          IN  /\ Chosen # <<>>
              /\ Range(Chosen) = IF good = {} THEN Range(cands) ELSE good
              /\ good = {} => Chosen = cands
              /\ \A p \in ProviderNames :
                   Occurrences(Chosen, p) <= Occurrences(cands, p) ]_vars

\* google-gemini, below the floor, was dropped from tenant-a's candidates
C25_Witness ==
  \E r \in Slots :
    /\ Awaiting(r)
    /\ req[r].tenant = "tenant-a"
    /\ req[r].ordered = <<HF>>
    /\ req[r].idx = 1
    /\ circuitBreakers[GG].state = "closed"
    /\ healthData[GG].exists /\ healthData[GG].uptime.n = 0

\* the lists that hold the same names as s, as often, in any order
Reorderings(s) ==
  {[i \in DOMAIN s |-> s[f[i]]] : f \in Permutations(DOMAIN s)}

\* C26: the policy engine's output depends only on the set of candidates, the
\* health snapshot and the policy: selectProviders returns the same ordering
\* for the candidates of a request given in any other list order.
C26_OrderIndependent ==
  [][ \A tn \in TenantIds :
        (Routed(tn) /\ isInitialized /\ CandidatesOf(tn) # <<>>) =>
          \A other \in Reorderings(CandidatesOf(tn)) :
            selectProviders(other, healthData, PolicyOf(tenants[tn])) = Chosen ]_vars

\* ------------------------------------------------------------------------
\* C27: after shutdown() the provider map and the breaker map are empty,
\* isInitialized is false and the health monitor is stopped, and every
\* routeRequest called from then on is rejected with 'RouterEngine not
\* initialized' without a provider being asked or any breaker or health
\* record being touched
\* ------------------------------------------------------------------------
AfterShutdown == ~monitor.isMonitoring

C27_ShutdownIsFinal ==
  [][/\ AfterShutdown' =>
          /\ providers' = {}
          /\ DOMAIN circuitBreakers' = {}
          /\ ~isInitialized'
          /\ ~monitor'.healthCheckInterval
     /\ AfterShutdown =>
          /\ AfterShutdown'
          /\ \A tn \in TenantIds :
               Routed(tn) =>
                 /\ lastResult'.kind = "NotInitialized"
                 /\ lastResult'.tenant = tn
                 /\ lastResult'.attempts = <<>>
                 /\ calls' = <<>>
                 /\ req' = req
                 /\ UNCHANGED <<circuitBreakers, healthData>>]_vars

\* a routeRequest was rejected after shutdown()
C27_Witness ==
  /\ AfterShutdown
  /\ lastResult.kind = "NotInitialized"

\* ------------------------------------------------------------------------
\* C22: an attempt whose makeRequest has not settled when the 15 s timer
\* fires gets exactly one outcome: one failed attempt with the timeout error,
\* one failure on the provider's health record and breaker, and the next
\* provider is tried (or the request ends with all providers failed); what
\* the timed-out makeRequest delivers later changes neither a request nor its
\* result nor any breaker or health record
\* ------------------------------------------------------------------------
AttemptsAfter(r) ==
  IF req'[r].pc = "awaiting" THEN req'[r].attempts ELSE lastResult'.attempts

TimerFired(r, x) ==
  /\ Awaiting(r)
  /\ x.provider = Current(r)
  /\ x.startTime = req[r].startTime

C22_DeadlineDecides ==
  [][/\ \A x \in late' \ late :
          \E r \in Slots :
            /\ TimerFired(r, x)
            /\ Elapsed(r) >= requestTimeoutMs
            /\ AttemptsAfter(r) =
                 Append(req[r].attempts,
                        Attempt(x.provider, "failed", "timeout", Elapsed(r)))
            /\ healthData' =
                 [healthData EXCEPT ![x.provider] = recordFailure(@)]
            /\ circuitBreakers' =
                 [circuitBreakers EXCEPT ![x.provider] =
                    recordCircuitBreakerFailure(@, now)]
            /\ IF req[r].idx < Len(req[r].ordered)
                 THEN /\ req'[r].pc = "awaiting"
                      /\ req'[r].idx = req[r].idx + 1
                      /\ req'[r].startTime = now
                      /\ completed' = completed
                 ELSE /\ lastResult'.kind = "AllProvidersFailed"
                      /\ completed' = completed + 1
     /\ late \ late' # {} =>
          UNCHANGED <<req, lastResult, completed, circuitBreakers, healthData,
                      streak, budget>>]_vars

\* a request ended after one of its attempts timed out, and the timed-out
\* makeRequest has delivered its result since
C22_Witness ==
  /\ late = {}
  /\ \E i \in DOMAIN lastResult.attempts : lastResult.attempts[i].error = "timeout"

\* ------------------------------------------------------------------------
\* C21: a chat request whose routeRequest is rejected is answered by the kind
\* of the failure: 503 service_unavailable when no candidate is left, 502
\* bad_gateway with the attempts in the body when every ordered provider
\* failed, 500 api_error for any other router failure; none of the answers
\* carries choices
\* ------------------------------------------------------------------------
RoutingFailed ==
  /\ completed' = completed + 1
  /\ lastResult'.kind # "response"

C21_RouterFailureStatus ==
  [][RoutingFailed =>
       /\ lastHttp'.tenant = lastResult'.tenant
       /\ ~lastHttp'.choices
       /\ lastResult'.kind = "NoProvidersAvailable" =>
            /\ lastHttp'.status = 503
            /\ lastHttp'.type = "service_unavailable"
       /\ lastResult'.kind = "AllProvidersFailed" =>
            /\ lastHttp'.status = 502
            /\ lastHttp'.type = "bad_gateway"
            /\ lastHttp'.attempts = lastResult'.attempts
            /\ lastHttp'.attempts # <<>>
            /\ lastHttp'.providers_attempted = Len(lastResult'.ordered)
       /\ lastResult'.kind \notin {"NoProvidersAvailable", "AllProvidersFailed"} =>
            /\ lastResult'.kind = "NotInitialized"
            /\ lastHttp'.status = 500
            /\ lastHttp'.type = "api_error"]_vars

\* both providers of tenant-a failed and the answer is the 502
C21_Witness ==
  /\ lastResult.kind = "AllProvidersFailed"
  /\ lastHttp.status = 502
  /\ Len(lastHttp.attempts) = 2

\* ------------------------------------------------------------------------
\* Ranking of the providers that pass the uptime floor
\* ------------------------------------------------------------------------
Selected(policyName) ==
  /\ calls # <<>>
  /\ calls[1].op = "selectProviders"
  /\ calls[1].policyName = policyName

\* the candidates of the call that meet the policy's min_uptime
PassingFloor ==
  {p \in Range(calls[1].availableProviders) :
     \/ ~healthData[p].exists
     \/ RatLeq(PolicyFor(calls[1].policyName).min_uptime, healthData[p].uptime)}

\* cost per token in thousandths of a dollar: the static table, 0.002 for a
\* provider it does not list
ListedCost(p) ==
  IF p = GG THEN 1 ELSE IF p = HF THEN 0 ELSE 2

\* the result holds exactly the passing candidates, and Before(a, b) holds of
\* every provider a placed before a provider b
RankedBy(Before(_, _)) ==
  LET out == calls[1].result
  IN  /\ Range(out) = PassingFloor
      /\ \A i, j \in DOMAIN out : i < j => Before(out[i], out[j])

HigherUptimeFirst(a, b) == RatLeq(healthData[b].uptime, healthData[a].uptime)

\* C31: under cost-optimized the providers that pass the floor come in
\* ascending order of cost per token, providers of equal cost in descending
\* order of uptime
C31_CostThenUptime ==
  (Selected("cost-optimized") /\ PassingFloor # {}) =>
    RankedBy(LAMBDA a, b :
               \/ ListedCost(a) < ListedCost(b)
               \/ ListedCost(a) = ListedCost(b) /\ HigherUptimeFirst(a, b))

\* C32: under performance-first the providers that pass the floor come in
\* ascending order of avg_latency, providers of equal avg_latency in
\* descending order of uptime
C32_LatencyThenUptime ==
  (Selected("performance-first") /\ PassingFloor # {}) =>
    RankedBy(LAMBDA a, b :
               \/ RatLess(healthData[a].avg_latency, healthData[b].avg_latency)
               \/ /\ healthData[a].avg_latency = healthData[b].avg_latency
                  /\ HigherUptimeFirst(a, b))

\* ten times the score of a provider with samples:
\* 3 * clamp(uptime, 0, 1) + 4 * max(0, 1 - avg_latency / 2000)
\*   + 3 * max(0, 1 - cost / 0.01)
ScoreOf(p) ==
  LET u  == healthData[p].uptime
      l  == healthData[p].avg_latency
      us == IF RatLess([n |-> 1, d |-> 1], u) THEN [n |-> 1, d |-> 1]
            ELSE IF u.n < 0 THEN [n |-> 0, d |-> 1] ELSE u
      ls == IF l.n < 2000 * l.d
            THEN Ratio(2000 * l.d - l.n, 2000 * l.d) ELSE [n |-> 0, d |-> 1]
      cs == IF ListedCost(p) < 10 THEN 10 - ListedCost(p) ELSE 0
  IN  Ratio(3 * us.n * ls.d * 10 + 4 * ls.n * us.d * 10 + 3 * cs * us.d * ls.d,
            us.d * ls.d * 10)

\* C33: under balanced the providers that pass the floor come in descending
\* order of the score, for every uptime, avg_latency and cost of the grid,
\* 0 included
C33_ScoreDescending ==
  (/\ Selected("balanced")
   /\ PassingFloor # {}
   /\ \A p \in PassingFloor : healthData[p].exists) =>
    RankedBy(LAMBDA a, b : RatLeq(ScoreOf(b), ScoreOf(a)))

\* the records with the tracker's initial aggregate (uptime 1.0, avg_latency
\* 200) in the place of a missing record
AsInitial(hd) ==
  [p \in DOMAIN hd |->
     IF hd[p].exists THEN hd[p] ELSE [NoHealth EXCEPT !.exists = TRUE]]

\* C34: a provider without a health sample is ranked by every policy as a
\* provider of uptime 1.0 and avg_latency 200 would be
C34_NoSampleRankedAsInitial ==
  (calls # <<>> /\ calls[1].op = "selectProviders") =>
    calls[1].result =
      selectProviders(calls[1].availableProviders, AsInitial(healthData),
                      calls[1].policyName)

\* ------------------------------------------------------------------------
\* C37: policy_used of a successful response names the routing policy that
\* ordered the providers of the request: the tenant's routing_policy, or
\* 'balanced' when the tenant names none
\* ------------------------------------------------------------------------
C37_PolicyUsedNamesPolicy ==
  lastResult.kind = "response" =>
    lastResult.policy_used = PolicyOf(tenants[lastResult.tenant])

\* ------------------------------------------------------------------------
\* C35: while requests of a tenant that may use the provider keep arriving, a
\* breaker that is not closed although its provider would answer returns to
\* closed
\* ------------------------------------------------------------------------
WouldSucceed(p) == MaySucceed(p) /\ ~MayFail(p)

C35_BreakerRecovers ==
  (circuitBreakers[GG].state # "closed" /\ WouldSucceed(GG))
    ~> (circuitBreakers[GG].state = "closed")

\* ------------------------------------------------------------------------
\* C36: once stopMonitoring() has returned, through shutdown() or not, the
\* periodic timer is cleared, and the start-up check that runs afterwards
\* starts no probe and appends nothing to the health records
\* ------------------------------------------------------------------------
\* the callback of the start-up timer runs in this step
StartupCheckRuns == monitor.initialCheck /\ ~monitor'.initialCheck

RECURSIVE SumIntervals(_)
SumIntervals(ms) ==
  IF ms = <<>> THEN 0 ELSE Head(ms).intervals + SumIntervals(Tail(ms))

ActiveTimers == monitor.intervals + SumIntervals(engines)

C40_OneHealthTimer == ActiveTimers <= 1

\* C38: under any interleaving of concurrent chat requests of one tenant, the
\* tenant's usage.daily_requests never exceeds its daily_requests quota within
\* one day.
C38_DailyQuotaNeverExceeded ==
  \A tn \in TenantIds :
    ( /\ tenants[tn].quotas.present
      /\ tenants[tn].quotas.daily_requests > 0
      /\ usageData[tn].exists
      /\ now - usageData[tn].last_reset <= dayMs )
    => usageData[tn].daily_requests <= tenants[tn].quotas.daily_requests

\* a failure of provider p is put on its breaker or its health record
FailureRecorded(p) ==
  \/ \E i \in DOMAIN calls' :
       calls'[i].op = "recordCircuitBreakerFailure" /\ calls'[i].provider = p
  \/ /\ healthData'[p] # healthData[p]
     /\ healthData'[p] = recordFailure(healthData[p])

\* an upstream call to p was issued and has not ended
UpstreamCallIssued(p) == \E r \in Slots : Awaiting(r) /\ Current(r) = p

\* C39: a breaker failure and an unhealthy health sample are recorded for a
\* provider only when an upstream call to it was issued and failed or timed
\* out; a request rejected inside the router or the adapter before any
\* upstream call (a validated request with no user-role message) leaves every
\* breaker and every health history unchanged.
C39_FailuresOnlyFromUpstream ==
  [][ /\ \A p \in ProviderNames : FailureRecorded(p) => UpstreamCallIssued(p)
      /\ (\E r \in Slots : req[r].pc = "unsent" /\ req'[r].pc # "unsent")
           => UNCHANGED <<circuitBreakers, healthData>> ]_vars

====
